---- MODULE Spec2Model ----
(***************************************************************************)
(* finarith: overflow-checked 64-bit integer arithmetic (packages safeint  *)
(* and safeuint) and the rounding engine (package rounding).               *)
(*                                                                         *)
(* Every operation of the library is a function of its arguments.  A state *)
(* of the model is one call: the function called (op), its arguments       *)
(* (args), the position of the call (pc = "call" before the body ran,      *)
(* "done" after it returned) and the pair it returned (ret).               *)
(*                                                                         *)
(* Machine integers are modelled with their wraparound, at a word width of *)
(* WordBits bits instead of 64: MaxInt64, MinInt64 and MaxUint64 are the   *)
(* extreme values of that word, and +, -, * wrap modulo 2^WordBits as Go's *)
(* int64/uint64 operators do modulo 2^64.                                  *)
(***************************************************************************)
EXTENDS Integers, Sequences, FiniteSets, TLC

VARIABLES pc, op, args, ret

vars == <<pc, op, args, ret>>

(***************************************************************************)
(* Bounds of the model.                                                    *)
(***************************************************************************)
\* width of the machine word that stands for Go's 64-bit word
WordBits == 9
\* the arithmetic operands are the words within Near of MinInt64, 0, MaxInt64
Near == 32
\* RoundInt64 is called with the units -1 .. MaxUnit
MaxUnit == 20
\* RoundFloat64 is called with the finite values q/4, -MaxQuarters <= q <= MaxQuarters
MaxQuarters == 50
\* RoundFloat64 is called with the decimals -1 .. MaxDecimals
MaxDecimals == 2
\* the bounded variants are called with a within NearA of 0, with b and the
\* bound within Near of 0, and with each of them within NearEnd of an extreme
NearA == 10
NearEnd == 2
\* RoundFloat64 in binary64 is called with the literals this near 10.555
LiteralSpread == 15
\* the number of concurrent callers
NumCallers == 2
\* the rules are called with amounts up to MaxHalves/2
MaxHalves == 4
\* decimals are rounded to at most MaxPlaces digits after the point
MaxPlaces == 2
\* the decimals that are rounded have coefficients up to MaxCoef
MaxCoef == 25

(***************************************************************************)
(* Go's fixed-width integers.                                              *)
(***************************************************************************)
TwoPowW == 2 ^ WordBits

MaxInt64 == 2 ^ (WordBits - 1) - 1

MinInt64 == -(2 ^ (WordBits - 1))

MaxUint64 == 2 ^ WordBits - 1

Int64 == MinInt64 .. MaxInt64

Uint64 == 0 .. MaxUint64

Abs(x) == IF x < 0 THEN -x ELSE x

\* the int64 that holds the low WordBits bits of the mathematical integer x
WrapInt64(x) == ((x - MinInt64) % TwoPowW) + MinInt64

\* the uint64 that holds the low WordBits bits of the mathematical integer x
WrapUint64(x) == x % TwoPowW

\* Go's x + y, x - y, x * y and -x on int64
AddInt64(x, y) == WrapInt64(x + y)

SubInt64(x, y) == WrapInt64(x - y)

MulInt64(x, y) == WrapInt64(x * y)

NegInt64(x) == WrapInt64(-x)

\* Go's x / y on int64: truncated toward zero; MinInt64 / -1 wraps to MinInt64.
\* (y = 0 panics; no call site of the library divides by zero.)
QuoInt64(x, y) ==
    LET q == Abs(x) \div Abs(y)
    IN  WrapInt64(IF (x < 0) = (y < 0) THEN q ELSE -q)

\* Go's x % y on int64: the remainder of the truncated division (sign of x)
RemInt64(x, y) == x - y * (IF (x < 0) = (y < 0) THEN Abs(x) \div Abs(y)
                                                ELSE -(Abs(x) \div Abs(y)))

\* Go's x + y, x - y, x * y and x / y on uint64
AddUint64(x, y) == WrapUint64(x + y)

SubUint64(x, y) == WrapUint64(x - y)

MulUint64(x, y) == WrapUint64(x * y)

QuoUint64(x, y) == x \div y

(***************************************************************************)
(* Package errors.                                                         *)
(***************************************************************************)
Nil == [type |-> "nil"]

ErrOverflow == [type |-> "errorString", s |-> "arithmetic overflow"]

ErrDivideByZero == [type |-> "errorString", s |-> "divide by zero"]

ErrNegativeValue == [type |-> "errorString", s |-> "negative value not allowed"]

ErrExceedsLimit == [type |-> "errorString", s |-> "value exceeds limit"]

ErrInvalidPrecision == [type |-> "errorString", s |-> "invalid precision"]

ErrInvalidRounding == [type |-> "errorString", s |-> "invalid rounding mode"]

NewOverflowError(o, a, b) ==
    [type |-> "OverflowError", Operation |-> o, A |-> a, B |-> b]

NewLimitError(value, limit, operation) ==
    [type |-> "LimitError", Value |-> value, Limit |-> limit,
     Operation |-> operation]

\* errors.Is(err, target): identity, else the error's own Is method
Is(err, target) ==
    \/ err = target
    \/ err.type = "OverflowError" /\ target = ErrOverflow
    \/ err.type = "LimitError" /\ target = ErrExceedsLimit

\* a returned pair (value, error)
Return(v, e) == [val |-> v, err |-> e]

(***************************************************************************)
(* Package safeint.                                                        *)
(***************************************************************************)
safeint_Add(a, b) ==
    IF b > 0 /\ a > SubInt64(MaxInt64, b)
    THEN Return(0, NewOverflowError("+", a, b))
    ELSE IF b < 0 /\ a < SubInt64(MinInt64, b)
    THEN Return(0, NewOverflowError("+", a, b))
    ELSE Return(AddInt64(a, b), Nil)

\* Sub without its first test (b < 0 and a - b above MaxInt64)
safeint_Sub_NoUpperTest(a, b) ==
    IF b > 0 /\ a < AddInt64(MinInt64, b)
    THEN Return(0, NewOverflowError("-", a, b))
    ELSE Return(SubInt64(a, b), Nil)

safeint_Sub(a, b) ==
    IF b < 0 /\ a > AddInt64(MaxInt64, b)
    THEN Return(0, NewOverflowError("-", a, b))
    ELSE IF b > 0 /\ a < AddInt64(MinInt64, b)
    THEN Return(0, NewOverflowError("-", a, b))
    ELSE Return(SubInt64(a, b), Nil)

\* Mul whose test of the quadrant a < 0, b < 0 divides MinInt64, not MaxInt64
safeint_Mul_WrongQuadrant(a, b) ==
    IF a = 0 \/ b = 0
    THEN Return(0, Nil)
    ELSE IF a > 0 /\ b > 0 /\ a > QuoInt64(MaxInt64, b)
    THEN Return(0, NewOverflowError("*", a, b))
    ELSE IF a < 0 /\ b < 0 /\ a < QuoInt64(MinInt64, b)
    THEN Return(0, NewOverflowError("*", a, b))
    ELSE IF a > 0 /\ b < 0 /\ b < QuoInt64(MinInt64, a)
    THEN Return(0, NewOverflowError("*", a, b))
    ELSE IF a < 0 /\ b > 0 /\ a < QuoInt64(MinInt64, b)
    THEN Return(0, NewOverflowError("*", a, b))
    ELSE Return(MulInt64(a, b), Nil)

safeint_Mul(a, b) ==
    IF a = 0 \/ b = 0
    THEN Return(0, Nil)
    ELSE IF a > 0 /\ b > 0 /\ a > QuoInt64(MaxInt64, b)
    THEN Return(0, NewOverflowError("*", a, b))
    ELSE IF a < 0 /\ b < 0 /\ a < QuoInt64(MaxInt64, b)
    THEN Return(0, NewOverflowError("*", a, b))
    ELSE IF a > 0 /\ b < 0 /\ b < QuoInt64(MinInt64, a)
    THEN Return(0, NewOverflowError("*", a, b))
    ELSE IF a < 0 /\ b > 0 /\ a < QuoInt64(MinInt64, b)
    THEN Return(0, NewOverflowError("*", a, b))
    ELSE Return(MulInt64(a, b), Nil)

(***************************************************************************)
(* Calls of package safeint.                                               *)
(***************************************************************************)
Pending == Return(0, [type |-> "pending"])

\* the signed operands the calls are made with
IntOperands ==
    {x \in Int64 : Abs(x) <= Near \/ x >= MaxInt64 - Near \/ x <= MinInt64 + Near}

InitInt ==
    /\ pc = "call"
    /\ op \in {"safeint.Add", "safeint.Sub", "safeint.Mul"}
    /\ args \in [a : IntOperands, b : IntOperands]
    /\ ret = Pending

CallIntAdd ==
    /\ pc = "call" /\ op = "safeint.Add"
    /\ ret' = safeint_Add(args.a, args.b)
    /\ pc' = "done"
    /\ UNCHANGED <<op, args>>

CallIntSub ==
    /\ pc = "call" /\ op = "safeint.Sub"
    /\ ret' = safeint_Sub(args.a, args.b)
    /\ pc' = "done"
    /\ UNCHANGED <<op, args>>

CallIntMul ==
    /\ pc = "call" /\ op = "safeint.Mul"
    /\ ret' = safeint_Mul(args.a, args.b)
    /\ pc' = "done"
    /\ UNCHANGED <<op, args>>

NextInt == CallIntAdd \/ CallIntSub \/ CallIntMul

SpecInt == InitInt /\ [][NextInt]_vars

(***************************************************************************)
(* Package safeuint.                                                       *)
(***************************************************************************)
safeuint_Add(a, b) ==
    IF b > 0 /\ a > SubUint64(MaxUint64, b)
    THEN Return(0, NewOverflowError("+", a, b))
    ELSE Return(AddUint64(a, b), Nil)

\* Sub whose underflow test is a <= b
safeuint_Sub_TestLeq(a, b) ==
    IF a <= b
    THEN Return(0, NewOverflowError("-", a, b))
    ELSE Return(SubUint64(a, b), Nil)

safeuint_Sub(a, b) ==
    IF a < b
    THEN Return(0, NewOverflowError("-", a, b))
    ELSE Return(SubUint64(a, b), Nil)

safeuint_Mul(a, b) ==
    IF a = 0 \/ b = 0
    THEN Return(0, Nil)
    ELSE IF a > QuoUint64(MaxUint64, b)
    THEN Return(0, NewOverflowError("*", a, b))
    ELSE Return(MulUint64(a, b), Nil)

(***************************************************************************)
(* Calls of package safeuint.                                              *)
(***************************************************************************)
\* the unsigned operands the calls are made with
UintOperands == {x \in Uint64 : x <= Near \/ x >= MaxUint64 - Near}

InitUint ==
    /\ pc = "call"
    /\ op \in {"safeuint.Add", "safeuint.Sub", "safeuint.Mul"}
    /\ args \in [a : UintOperands, b : UintOperands]
    /\ ret = Pending

CallUintAdd ==
    /\ pc = "call" /\ op = "safeuint.Add"
    /\ ret' = safeuint_Add(args.a, args.b)
    /\ pc' = "done"
    /\ UNCHANGED <<op, args>>

CallUintSub ==
    /\ pc = "call" /\ op = "safeuint.Sub"
    /\ ret' = safeuint_Sub(args.a, args.b)
    /\ pc' = "done"
    /\ UNCHANGED <<op, args>>

CallUintMul ==
    /\ pc = "call" /\ op = "safeuint.Mul"
    /\ ret' = safeuint_Mul(args.a, args.b)
    /\ pc' = "done"
    /\ UNCHANGED <<op, args>>

NextUint == CallUintAdd \/ CallUintSub \/ CallUintMul

SpecUint == InitUint /\ [][NextUint]_vars

(***************************************************************************)
(* Package safeint: the bounded variants.                                 *)
(***************************************************************************)
\* AddWithLimit that rejects a result equal to the limit
safeint_AddWithLimit_Exclusive(a, b, limit) ==
    LET r == safeint_Add(a, b)
    IN  IF r.err # Nil
        THEN Return(0, r.err)
        ELSE IF r.val >= limit
        THEN Return(0, NewLimitError(r.val, limit, "addition"))
        ELSE Return(r.val, Nil)

safeint_AddWithLimit(a, b, limit) ==
    LET r == safeint_Add(a, b)
    IN  IF r.err # Nil
        THEN Return(0, r.err)
        ELSE IF r.val > limit
        THEN Return(0, NewLimitError(r.val, limit, "addition"))
        ELSE Return(r.val, Nil)

safeint_SubWithFloor(a, b, floor) ==
    LET r == safeint_Sub(a, b)
    IN  IF r.err # Nil
        THEN Return(0, r.err)
        ELSE IF r.val < floor
        THEN Return(0, NewLimitError(r.val, floor, "subtraction floor"))
        ELSE Return(r.val, Nil)

\* MulWithLimit that hands NewLimitError the limit first and the result second
safeint_MulWithLimit_SwappedFields(a, b, limit) ==
    LET r == safeint_Mul(a, b)
    IN  IF r.err # Nil
        THEN Return(0, r.err)
        ELSE IF r.val > limit
        THEN Return(0, NewLimitError(limit, r.val, "multiplication"))
        ELSE Return(r.val, Nil)

\* MulWithLimit that returns the result together with the LimitError
safeint_MulWithLimit_KeepsResult(a, b, limit) ==
    LET r == safeint_Mul(a, b)
    IN  IF r.err # Nil
        THEN Return(0, r.err)
        ELSE IF r.val > limit
        THEN Return(r.val, NewLimitError(r.val, limit, "multiplication"))
        ELSE Return(r.val, Nil)

safeint_MulWithLimit(a, b, limit) ==
    LET r == safeint_Mul(a, b)
    IN  IF r.err # Nil
        THEN Return(0, r.err)
        ELSE IF r.val > limit
        THEN Return(0, NewLimitError(r.val, limit, "multiplication"))
        ELSE Return(r.val, Nil)

(***************************************************************************)
(* Package safeuint: the bounded variants.                                 *)
(***************************************************************************)
safeuint_AddWithLimit(a, b, limit) ==
    LET r == safeuint_Add(a, b)
    IN  IF r.err # Nil
        THEN Return(0, r.err)
        ELSE IF r.val > limit
        THEN Return(0, NewLimitError(r.val, limit, "addition"))
        ELSE Return(r.val, Nil)

\* SubWithFloor that reports a failure of Sub as a result below the floor
safeuint_SubWithFloor_ErrorAsFloor(a, b, floor) ==
    LET r == safeuint_Sub(a, b)
    IN  IF r.err # Nil \/ r.val < floor
        THEN Return(0, NewLimitError(r.val, floor, "subtraction floor"))
        ELSE Return(r.val, Nil)

safeuint_SubWithFloor(a, b, floor) ==
    LET r == safeuint_Sub(a, b)
    IN  IF r.err # Nil
        THEN Return(0, r.err)
        ELSE IF r.val < floor
        THEN Return(0, NewLimitError(r.val, floor, "subtraction floor"))
        ELSE Return(r.val, Nil)

safeuint_MulWithLimit(a, b, limit) ==
    LET r == safeuint_Mul(a, b)
    IN  IF r.err # Nil
        THEN Return(0, r.err)
        ELSE IF r.val > limit
        THEN Return(0, NewLimitError(r.val, limit, "multiplication"))
        ELSE Return(r.val, Nil)

(***************************************************************************)
(* Calls of the bounded variants.                                          *)
(***************************************************************************)
IntBoundedA ==
    {x \in Int64 : \/ Abs(x) <= NearA
                   \/ x >= MaxInt64 - NearEnd \/ x <= MinInt64 + NearEnd}

IntBoundedB ==
    {x \in Int64 : \/ Abs(x) <= Near
                   \/ x >= MaxInt64 - NearEnd \/ x <= MinInt64 + NearEnd}

UintBoundedA == {x \in Uint64 : x <= NearA \/ x >= MaxUint64 - NearEnd}

UintBoundedB == {x \in Uint64 : x <= Near \/ x >= MaxUint64 - NearEnd}

IntBoundedOps ==
    {"safeint.AddWithLimit", "safeint.SubWithFloor", "safeint.MulWithLimit"}

UintBoundedOps ==
    {"safeuint.AddWithLimit", "safeuint.SubWithFloor", "safeuint.MulWithLimit"}

InitLimit ==
    /\ pc = "call"
    /\ \/ /\ op \in IntBoundedOps
          /\ args \in [a : IntBoundedA, b : IntBoundedB, bound : IntBoundedB]
       \/ /\ op \in UintBoundedOps
          /\ args \in [a : UintBoundedA, b : UintBoundedB, bound : UintBoundedB]
    /\ ret = Pending

CallIntAddWithLimit ==
    /\ pc = "call" /\ op = "safeint.AddWithLimit"
    /\ ret' = safeint_AddWithLimit(args.a, args.b, args.bound)
    /\ pc' = "done"
    /\ UNCHANGED <<op, args>>

CallIntSubWithFloor ==
    /\ pc = "call" /\ op = "safeint.SubWithFloor"
    /\ ret' = safeint_SubWithFloor(args.a, args.b, args.bound)
    /\ pc' = "done"
    /\ UNCHANGED <<op, args>>

CallIntMulWithLimit ==
    /\ pc = "call" /\ op = "safeint.MulWithLimit"
    /\ ret' = safeint_MulWithLimit(args.a, args.b, args.bound)
    /\ pc' = "done"
    /\ UNCHANGED <<op, args>>

CallUintAddWithLimit ==
    /\ pc = "call" /\ op = "safeuint.AddWithLimit"
    /\ ret' = safeuint_AddWithLimit(args.a, args.b, args.bound)
    /\ pc' = "done"
    /\ UNCHANGED <<op, args>>

CallUintSubWithFloor ==
    /\ pc = "call" /\ op = "safeuint.SubWithFloor"
    /\ ret' = safeuint_SubWithFloor(args.a, args.b, args.bound)
    /\ pc' = "done"
    /\ UNCHANGED <<op, args>>

CallUintMulWithLimit ==
    /\ pc = "call" /\ op = "safeuint.MulWithLimit"
    /\ ret' = safeuint_MulWithLimit(args.a, args.b, args.bound)
    /\ pc' = "done"
    /\ UNCHANGED <<op, args>>

NextLimit ==
    \/ CallIntAddWithLimit
    \/ CallIntSubWithFloor
    \/ CallIntMulWithLimit
    \/ CallUintAddWithLimit
    \/ CallUintSubWithFloor
    \/ CallUintMulWithLimit

SpecLimit == InitLimit /\ [][NextLimit]_vars

(***************************************************************************)
(* Package rounding: the modes and the integer path.                       *)
(***************************************************************************)
RoundDown == 0

RoundUp == 1

RoundHalfUp == 2

RoundHalfDown == 3

RoundHalfEven == 4

RoundCeiling == 5

RoundFloor == 6

\* the seven defined modes
Modes == RoundDown .. RoundFloor

\* ((x) / unit) * unit, the expression every arm of RoundInt64 ends with
QuoTimes(x, unit) == MulInt64(QuoInt64(x, unit), unit)

\* the arm of RoundHalfEven with the parity test inverted
RoundInt64HalfEven_OddTie(value, unit) ==
    LET halfUnit == QuoInt64(unit, 2)
        quotient == QuoInt64(value, unit)
    IN  IF RemInt64(value, unit) = halfUnit
           \/ RemInt64(value, unit) = NegInt64(halfUnit)
        THEN IF RemInt64(quotient, 2) # 0
             THEN MulInt64(quotient, unit)
             ELSE IF quotient >= 0
             THEN MulInt64(AddInt64(quotient, 1), unit)
             ELSE MulInt64(SubInt64(quotient, 1), unit)
        ELSE IF value >= 0
        THEN QuoTimes(AddInt64(value, halfUnit), unit)
        ELSE QuoTimes(SubInt64(value, halfUnit), unit)

\* the arm of RoundHalfEven
RoundInt64HalfEven(value, unit) ==
    LET halfUnit == QuoInt64(unit, 2)
        quotient == QuoInt64(value, unit)
    IN  IF RemInt64(value, unit) = halfUnit
           \/ RemInt64(value, unit) = NegInt64(halfUnit)
        THEN IF RemInt64(quotient, 2) = 0
             THEN MulInt64(quotient, unit)
             ELSE IF quotient >= 0
             THEN MulInt64(AddInt64(quotient, 1), unit)
             ELSE MulInt64(SubInt64(quotient, 1), unit)
        ELSE IF value >= 0
        THEN QuoTimes(AddInt64(value, halfUnit), unit)
        ELSE QuoTimes(SubInt64(value, halfUnit), unit)

\* the arm of RoundHalfDown
RoundInt64HalfDown(value, unit) ==
    LET halfUnit == QuoInt64(unit, 2)
    IN  IF value >= 0
        THEN IF RemInt64(value, unit) = halfUnit
             THEN QuoTimes(value, unit)
             ELSE QuoTimes(AddInt64(value, halfUnit), unit)
        ELSE IF RemInt64(NegInt64(value), unit) = halfUnit
             THEN QuoTimes(value, unit)
             ELSE QuoTimes(SubInt64(value, halfUnit), unit)

\* the switch over the mode
RoundInt64Switch(value, unit, mode) ==
         CASE mode = RoundDown ->
                IF value >= 0
                THEN Return(QuoTimes(value, unit), Nil)
                ELSE Return(QuoTimes(SubInt64(AddInt64(value, unit), 1), unit), Nil)
           [] mode = RoundUp ->
                IF value >= 0
                THEN Return(QuoTimes(SubInt64(AddInt64(value, unit), 1), unit), Nil)
                ELSE Return(QuoTimes(value, unit), Nil)
           [] mode = RoundHalfUp ->
                IF value >= 0
                THEN Return(QuoTimes(AddInt64(value, QuoInt64(unit, 2)), unit), Nil)
                ELSE Return(QuoTimes(SubInt64(value, QuoInt64(unit, 2)), unit), Nil)
           [] mode = RoundHalfDown ->
                Return(RoundInt64HalfDown(value, unit), Nil)
           [] mode = RoundHalfEven ->
                Return(RoundInt64HalfEven(value, unit), Nil)
           [] mode = RoundCeiling ->
                IF RemInt64(value, unit) = 0
                THEN Return(value, Nil)
                ELSE IF value > 0
                THEN Return(QuoTimes(SubInt64(AddInt64(value, unit), 1), unit), Nil)
                ELSE Return(QuoTimes(value, unit), Nil)
           [] mode = RoundFloor ->
                IF RemInt64(value, unit) = 0
                THEN Return(value, Nil)
                ELSE IF value > 0
                THEN Return(QuoTimes(value, unit), Nil)
                ELSE Return(QuoTimes(AddInt64(SubInt64(value, unit), 1), unit), Nil)
           [] OTHER -> Return(0, ErrInvalidRounding)

\* RoundInt64 that looks at the mode before it looks at the unit
RoundInt64_ModeFirst(value, unit, mode) ==
    IF mode \notin Modes
    THEN Return(0, ErrInvalidRounding)
    ELSE IF unit <= 0
    THEN Return(0, ErrInvalidPrecision)
    ELSE RoundInt64Switch(value, unit, mode)

\* RoundInt64 whose precision test rejects the unit 1 as well
RoundInt64_UnitAtMostOne(value, unit, mode) ==
    IF unit <= 1
    THEN Return(0, ErrInvalidPrecision)
    ELSE RoundInt64Switch(value, unit, mode)

RoundInt64(value, unit, mode) ==
    IF unit <= 0
    THEN Return(0, ErrInvalidPrecision)
    ELSE RoundInt64Switch(value, unit, mode)

(***************************************************************************)
(* Package rounding: the floating-point path.                              *)
(*                                                                         *)
(* A float64 is NaN, +Inf, -Inf or a finite value written as a fraction    *)
(* num/den, den > 0.  The finite arguments are the multiples of 1/4 up to  *)
(* MaxQuarters/4: they and their products with 10^decimals are exact       *)
(* doubles, so value*multiplier, the additions of 0.5 and math.Trunc,      *)
(* Ceil, Floor, Round, Modf and Mod are computed exactly here as they are  *)
(* in IEEE-754 arithmetic.  The result n/multiplier stands for the double  *)
(* the final division produces.  The sign of a zero is not recorded.       *)
(***************************************************************************)
NaN == [class |-> "NaN"]

PosInf == [class |-> "+Inf"]

NegInf == [class |-> "-Inf"]

Finite(n, d) == [class |-> "finite", num |-> n, den |-> d]

IsNaN(f) == f.class = "NaN"

IsInf(f) == f.class \in {"+Inf", "-Inf"}

Pow10(n) == 10 ^ n

\* math.Floor, math.Ceil, math.Trunc of the fraction n/d (d > 0)
Floor(n, d) == n \div d

Ceil(n, d) == -((-n) \div d)

Trunc(n, d) == IF n >= 0 THEN Floor(n, d) ELSE Ceil(n, d)

\* math.Floor(x + 0.5) and math.Ceil(x - 0.5) for x = n/d
FloorPlusHalf(n, d) == Floor(2 * n + d, 2 * d)

CeilMinusHalf(n, d) == Ceil(2 * n - d, 2 * d)

\* math.Floor(x + 0.5 - 1e-10) and math.Ceil(x - 0.5 + 1e-10) for x = n/d:
\* x + 0.5 is exact and is an integer or at least 1/(2d) away from one, so
\* taking 1e-10 off it moves the floor down by one exactly at an integer.
FloorPlusHalfMinusEps(n, d) == Ceil(2 * n + d, 2 * d) - 1

CeilMinusHalfPlusEps(n, d) == Floor(2 * n - d, 2 * d) + 1

\* math.Round(x) for x = n/d: nearest integer, halves away from zero
Round(n, d) == IF n >= 0 THEN FloorPlusHalf(n, d) ELSE CeilMinusHalf(n, d)

\* the arm of RoundHalfEven: the integer the scaled value n/d is rounded to
RoundFloat64HalfEven(n, d) ==
    LET intPart == Trunc(n, d)
        fracNum == n - intPart * d
    IN  IF 2 * Abs(fracNum) = d
        THEN IF intPart % 2 = 0
             THEN intPart
             ELSE IF intPart >= 0 THEN intPart + 1 ELSE intPart - 1
        ELSE Round(n, d)

\* the switch over the mode, for a finite value
RoundFloat64Switch(value, multiplier, mode) ==
         LET n == value.num * multiplier
             d == value.den
         IN  CASE mode = RoundDown ->
                    Return(Finite(Trunc(n, d), multiplier), Nil)
               [] mode = RoundUp ->
                    IF value.num >= 0
                    THEN Return(Finite(Ceil(n, d), multiplier), Nil)
                    ELSE Return(Finite(Floor(n, d), multiplier), Nil)
               [] mode = RoundHalfUp ->
                    IF value.num >= 0
                    THEN Return(Finite(FloorPlusHalf(n, d), multiplier), Nil)
                    ELSE Return(Finite(CeilMinusHalf(n, d), multiplier), Nil)
               [] mode = RoundHalfDown ->
                    IF value.num >= 0
                    THEN Return(Finite(FloorPlusHalfMinusEps(n, d), multiplier), Nil)
                    ELSE Return(Finite(CeilMinusHalfPlusEps(n, d), multiplier), Nil)
               [] mode = RoundHalfEven ->
                    Return(Finite(RoundFloat64HalfEven(n, d), multiplier), Nil)
               [] mode = RoundCeiling ->
                    Return(Finite(Ceil(n, d), multiplier), Nil)
               [] mode = RoundFloor ->
                    Return(Finite(Floor(n, d), multiplier), Nil)
               [] OTHER -> Return(Finite(0, 1), ErrInvalidRounding)

\* RoundFloat64 that rejects an unrecognized mode before it looks at the value
RoundFloat64_ModeFirst(value, decimals, mode) ==
    IF decimals < 0
    THEN Return(Finite(0, 1), ErrInvalidPrecision)
    ELSE IF mode \notin Modes
    THEN Return(Finite(0, 1), ErrInvalidRounding)
    ELSE IF IsNaN(value) \/ IsInf(value)
    THEN Return(value, Nil)
    ELSE RoundFloat64Switch(value, Pow10(decimals), mode)

RoundFloat64(value, decimals, mode) ==
    IF decimals < 0
    THEN Return(Finite(0, 1), ErrInvalidPrecision)
    ELSE IF IsNaN(value) \/ IsInf(value)
    THEN Return(value, Nil)
    ELSE RoundFloat64Switch(value, Pow10(decimals), mode)

(***************************************************************************)
(* Calls of package rounding.                                              *)
(***************************************************************************)
\* the Mode values the calls are made with: the seven modes and one
\* unrecognized value on each side of them
ModeInputs == (RoundDown - 1) .. (RoundFloor + 1)

Float64Inputs ==
    {NaN, PosInf, NegInf} \cup {Finite(q, 4) : q \in -MaxQuarters .. MaxQuarters}

InitRound ==
    /\ pc = "call"
    /\ \/ /\ op = "RoundInt64"
          /\ args \in [value : Int64, unit : -1 .. MaxUnit, mode : ModeInputs]
       \/ /\ op = "RoundFloat64"
          /\ args \in [value : Float64Inputs, decimals : -1 .. MaxDecimals,
                        mode : ModeInputs]
    /\ ret = Pending

CallRoundInt64 ==
    /\ pc = "call" /\ op = "RoundInt64"
    /\ ret' = RoundInt64(args.value, args.unit, args.mode)
    /\ pc' = "done"
    /\ UNCHANGED <<op, args>>

CallRoundFloat64 ==
    /\ pc = "call" /\ op = "RoundFloat64"
    /\ ret' = RoundFloat64(args.value, args.decimals, args.mode)
    /\ pc' = "done"
    /\ UNCHANGED <<op, args>>

NextRound == CallRoundInt64 \/ CallRoundFloat64

SpecRound == InitRound /\ [][NextRound]_vars

(***************************************************************************)
(* Package rounding: the floating-point path in binary64 arithmetic.       *)
(*                                                                         *)
(* The fractions above are exact only for arguments whose products with    *)
(* 10^decimals are exact doubles.  For decimal literals such as 10.555,    *)
(* which no double equals, every operator of RoundFloat64 is computed      *)
(* here as IEEE-754 binary64 computes it: the exact result rounded to      *)
(* MantBits significant bits, ties to even.  Significands do not fit a     *)
(* machine integer of the checker, so natural numbers are sequences of     *)
(* digits of LimbBits bits, least significant first, without leading       *)
(* zeros (zero is <<>>).  The arguments stay far from the exponent limits: *)
(* overflow to infinity and subnormal results are not modelled, nor is the *)
(* sign of a zero.                                                         *)
(***************************************************************************)
\* the significand width of float64
MantBits == 53

\* the width of a digit of the natural numbers below
LimbBits == 7

BigBase == 2 ^ LimbBits

RECURSIVE IntBitLen(_)
\* the number of bits of n >= 0
IntBitLen(n) == IF n = 0 THEN 0 ELSE 1 + IntBitLen(n \div 2)

RECURSIVE BigTrim(_)
\* a digit sequence without its leading zeros
BigTrim(a) ==
    IF a = <<>> THEN <<>>
    ELSE IF a[Len(a)] = 0 THEN BigTrim(SubSeq(a, 1, Len(a) - 1))
    ELSE a

RECURSIVE BigFromInt(_)
BigFromInt(n) ==
    IF n = 0 THEN <<>> ELSE <<n % BigBase>> \o BigFromInt(n \div BigBase)

RECURSIVE BigToInt(_)
BigToInt(a) == IF a = <<>> THEN 0 ELSE a[1] + BigBase * BigToInt(Tail(a))

BigLimb(a, i) == IF i >= 1 /\ i <= Len(a) THEN a[i] ELSE 0

BigMaxLen(a, b) == IF Len(a) >= Len(b) THEN Len(a) ELSE Len(b)

\* the number of bits of a
BigBitLen(a) ==
    IF a = <<>> THEN 0 ELSE LimbBits * (Len(a) - 1) + IntBitLen(a[Len(a)])

\* bit i of a, the lowest being bit 1
BigBit(a, i) ==
    (BigLimb(a, (i - 1) \div LimbBits + 1) \div 2 ^ ((i - 1) % LimbBits)) % 2

BigIsOdd(a) == a # <<>> /\ a[1] % 2 = 1

RECURSIVE BigAddFrom(_, _, _, _)
BigAddFrom(a, b, i, carry) ==
    IF i > BigMaxLen(a, b)
    THEN IF carry = 0 THEN <<>> ELSE <<carry>>
    ELSE LET s == BigLimb(a, i) + BigLimb(b, i) + carry
         IN  <<s % BigBase>> \o BigAddFrom(a, b, i + 1, s \div BigBase)

BigAdd(a, b) == BigAddFrom(a, b, 1, 0)

RECURSIVE BigSubFrom(_, _, _, _)
BigSubFrom(a, b, i, borrow) ==
    IF i > Len(a)
    THEN <<>>
    ELSE LET s == BigLimb(a, i) - BigLimb(b, i) - borrow
         IN  <<s % BigBase>> \o BigSubFrom(a, b, i + 1, IF s < 0 THEN 1 ELSE 0)

\* a - b for a >= b
BigSub(a, b) == BigTrim(BigSubFrom(a, b, 1, 0))

RECURSIVE BigCmpFrom(_, _, _)
BigCmpFrom(a, b, i) ==
    IF i = 0 THEN 0
    ELSE IF a[i] > b[i] THEN 1
    ELSE IF a[i] < b[i] THEN -1
    ELSE BigCmpFrom(a, b, i - 1)

\* -1, 0 or 1 as a < b, a = b or a > b
BigCmp(a, b) ==
    IF Len(a) > Len(b) THEN 1
    ELSE IF Len(a) < Len(b) THEN -1
    ELSE BigCmpFrom(a, b, Len(a))

RECURSIVE BigMulSmallFrom(_, _, _, _)
BigMulSmallFrom(a, m, i, carry) ==
    IF i > Len(a)
    THEN BigFromInt(carry)
    ELSE LET s == a[i] * m + carry
         IN  <<s % BigBase>> \o BigMulSmallFrom(a, m, i + 1, s \div BigBase)

\* a * m for a machine integer m, 0 <= m < 2^24
BigMulSmall(a, m) == IF m = 0 THEN <<>> ELSE BigMulSmallFrom(a, m, 1, 0)

RECURSIVE BigDivSmallFrom(_, _, _, _)
\* the digits of a from position i down are divided, rem coming from above
BigDivSmallFrom(a, d, i, rem) ==
    IF i = 0
    THEN [quo |-> <<>>, rem |-> rem]
    ELSE LET cur == rem * BigBase + a[i]
             rest == BigDivSmallFrom(a, d, i - 1, cur % d)
         IN  [quo |-> rest.quo \o <<cur \div d>>, rem |-> rest.rem]

\* quotient and remainder of a by a machine integer d, 0 < d < 2^24
BigDivSmall(a, d) ==
    LET qr == BigDivSmallFrom(a, d, Len(a), 0)
    IN  [quo |-> BigTrim(qr.quo), rem |-> qr.rem]

\* a * 2^k
BigShl(a, k) ==
    IF a = <<>> THEN <<>>
    ELSE [i \in 1 .. (k \div LimbBits) |-> 0] \o BigMulSmall(a, 2 ^ (k % LimbBits))

\* a \div 2^k
BigShr(a, k) ==
    IF k \div LimbBits >= Len(a) THEN <<>>
    ELSE BigDivSmall(SubSeq(a, k \div LimbBits + 1, Len(a)),
                     2 ^ (k % LimbBits)).quo

\* a % 2^k
BigLow(a, k) ==
    IF k \div LimbBits >= Len(a) THEN a
    ELSE BigTrim(SubSeq(a, 1, k \div LimbBits)
                 \o <<a[k \div LimbBits + 1] % 2 ^ (k % LimbBits)>>)

RECURSIVE BigMulFrom(_, _, _)
BigMulFrom(a, b, i) ==
    IF i > Len(b) THEN <<>>
    ELSE BigAdd([j \in 1 .. (i - 1) |-> 0] \o BigMulSmall(a, b[i]),
                BigMulFrom(a, b, i + 1))

BigMul(a, b) == IF a = <<>> \/ b = <<>> THEN <<>> ELSE BigTrim(BigMulFrom(a, b, 1))

RECURSIVE BigPow10(_)
BigPow10(n) == IF n = 0 THEN <<1>> ELSE BigMulSmall(BigPow10(n - 1), 10)

RECURSIVE IntLowZeros(_)
\* the number of zero bits below the lowest one bit of n > 0
IntLowZeros(n) == IF n % 2 = 1 THEN 0 ELSE 1 + IntLowZeros(n \div 2)

RECURSIVE BigLowZeros(_)
\* the number of zero bits below the lowest one bit of a > 0
BigLowZeros(a) ==
    IF a[1] # 0 THEN IntLowZeros(a[1]) ELSE LimbBits + BigLowZeros(Tail(a))

\* the finite float64 (-1)^neg * man * 2^exp, kept with man odd (or zero)
Double(neg, man, exp) ==
    IF man = <<>>
    THEN [class |-> "finite", neg |-> FALSE, man |-> <<>>, exp |-> 0]
    ELSE [class |-> "finite", neg |-> neg,
          man |-> BigShr(man, BigLowZeros(man)),
          exp |-> exp + BigLowZeros(man)]

\* the float64 nearest to (-1)^neg * (n/d) * 2^exp, ties to even, for a
\* machine integer d > 0: n is shifted so that the quotient has one or two
\* bits more than MantBits, and these bits and what the shift and the
\* division left over decide the direction
RoundToDouble(neg, n, d, exp) ==
    IF n = <<>>
    THEN Double(FALSE, <<>>, 0)
    ELSE LET k == MantBits + 1 + IntBitLen(d) - BigBitLen(n)
             shifted == IF k >= 0 THEN BigShl(n, k) ELSE BigShr(n, -k)
             lost == k < 0 /\ BigLow(n, -k) # <<>>
             qr == BigDivSmall(shifted, d)
             sticky == lost \/ qr.rem # 0
             extra == BigBitLen(qr.quo) - MantBits
             low == BigLow(qr.quo, extra)
             half == BigShl(<<1>>, extra - 1)
             kept == BigShr(qr.quo, extra)
             c == BigCmp(low, half)
             up == \/ c > 0
                   \/ c = 0 /\ sticky
                   \/ c = 0 /\ ~sticky /\ BigIsOdd(kept)
         IN  Double(neg, IF up THEN BigAdd(kept, <<1>>) ELSE kept,
                    exp - k + extra)

\* the float64 a decimal literal digits * 10^exp10 denotes
F64Literal(digits, exp10) ==
    IF exp10 >= 0
    THEN RoundToDouble(digits < 0,
                       BigMul(BigFromInt(Abs(digits)), BigPow10(exp10)), 1, 0)
    ELSE RoundToDouble(digits < 0, BigFromInt(Abs(digits)), 5 ^ (-exp10), exp10)

\* x * y before it is rounded
F64ExactMul(x, y) ==
    Double(x.neg # y.neg, BigMul(x.man, y.man), x.exp + y.exp)

\* x * y kept exact, as if a float64 held every product
F64Mul_Unrounded(x, y) ==
    Double(x.neg # y.neg, BigMul(x.man, y.man), x.exp + y.exp)

\* x * y
F64Mul(x, y) ==
    RoundToDouble(x.neg # y.neg, BigMul(x.man, y.man), 1, x.exp + y.exp)

\* x / y for a y # 0 whose significand is a machine integer, as that of a
\* power of ten is
F64Quo(x, y) ==
    RoundToDouble(x.neg # y.neg, x.man, BigToInt(y.man), x.exp - y.exp)

F64Neg(x) == Double(~x.neg, x.man, x.exp)

\* x + y
F64Add(x, y) ==
    LET e == IF x.exp <= y.exp THEN x.exp ELSE y.exp
        a == BigShl(x.man, x.exp - e)
        b == BigShl(y.man, y.exp - e)
    IN  IF x.neg = y.neg
        THEN RoundToDouble(x.neg, BigAdd(a, b), 1, e)
        ELSE IF BigCmp(a, b) >= 0
        THEN RoundToDouble(x.neg, BigSub(a, b), 1, e)
        ELSE RoundToDouble(y.neg, BigSub(b, a), 1, e)

\* x - y
F64Sub(x, y) == F64Add(x, F64Neg(y))

\* x*y + z: two roundings, or one where the compiler fuses the multiplication
\* and the addition, which the language permits it to do
F64MulAdd(x, y, z, fused) ==
    IF fused THEN F64Add(F64ExactMul(x, y), z) ELSE F64Add(F64Mul(x, y), z)

\* x >= 0
F64NonNegative(x) == ~x.neg

\* math.Trunc, math.Floor, math.Ceil: an odd significand with a negative
\* exponent is not an integer
MathTrunc(x) ==
    IF x.exp >= 0 THEN x ELSE Double(x.neg, BigShr(x.man, -x.exp), 0)

MathFloor(x) ==
    IF x.exp >= 0 THEN x
    ELSE IF x.neg
    THEN Double(TRUE, BigAdd(BigShr(x.man, -x.exp), <<1>>), 0)
    ELSE Double(FALSE, BigShr(x.man, -x.exp), 0)

MathCeil(x) ==
    IF x.exp >= 0 THEN x
    ELSE IF x.neg
    THEN Double(TRUE, BigShr(x.man, -x.exp), 0)
    ELSE Double(FALSE, BigAdd(BigShr(x.man, -x.exp), <<1>>), 0)

\* math.Round: the nearest integer, halves away from zero
MathRound(x) ==
    IF x.exp >= 0 THEN x
    ELSE IF BigBit(x.man, -x.exp) = 1
    THEN Double(x.neg, BigAdd(BigShr(x.man, -x.exp), <<1>>), 0)
    ELSE Double(x.neg, BigShr(x.man, -x.exp), 0)

\* math.Modf: the integer part and the fraction, both exact
MathModf(x) ==
    [int |-> MathTrunc(x),
     frac |-> IF x.exp >= 0 THEN Double(FALSE, <<>>, 0)
              ELSE Double(x.neg, BigLow(x.man, -x.exp), x.exp)]

\* math.Abs
MathAbs(x) == Double(FALSE, x.man, x.exp)

\* math.Mod(x, 2) == 0 for an integer x
MathMod2IsZero(x) == x.man = <<>> \/ x.exp >= 1

\* math.Pow10(n) for the small n >= 0 whose power is an exact float64
MathPow10(n) == Double(FALSE, BigPow10(n), 0)

\* the constants 0.5, 1 and 1e-10 of the source
F64Half == F64Literal(5, -1)

F64One == F64Literal(1, 0)

F64Eps == F64Literal(1, -10)

\* the switch over the mode in binary64, for a finite value
RoundFloat64SwitchBinary64(value, multiplier, mode, fused) ==
    CASE mode = RoundDown ->
             Return(F64Quo(MathTrunc(F64Mul(value, multiplier)), multiplier), Nil)
      [] mode = RoundUp ->
             IF F64NonNegative(value)
             THEN Return(F64Quo(MathCeil(F64Mul(value, multiplier)), multiplier), Nil)
             ELSE Return(F64Quo(MathFloor(F64Mul(value, multiplier)), multiplier), Nil)
      [] mode = RoundHalfUp ->
             IF F64NonNegative(value)
             THEN Return(F64Quo(MathFloor(
                      F64MulAdd(value, multiplier, F64Half, fused)),
                      multiplier), Nil)
             ELSE Return(F64Quo(MathCeil(
                      F64MulAdd(value, multiplier, F64Neg(F64Half), fused)),
                      multiplier), Nil)
      [] mode = RoundHalfDown ->
             IF F64NonNegative(value)
             THEN Return(F64Quo(MathFloor(F64Sub(
                      F64MulAdd(value, multiplier, F64Half, fused), F64Eps)),
                      multiplier), Nil)
             ELSE Return(F64Quo(MathCeil(F64Add(
                      F64MulAdd(value, multiplier, F64Neg(F64Half), fused), F64Eps)),
                      multiplier), Nil)
      [] mode = RoundHalfEven ->
             LET scaled == F64Mul(value, multiplier)
                 intPart == MathModf(scaled).int
                 fracPart == MathModf(scaled).frac
             IN  IF MathAbs(fracPart) = F64Half
                 THEN IF MathMod2IsZero(intPart)
                      THEN Return(F64Quo(intPart, multiplier), Nil)
                      ELSE IF F64NonNegative(intPart)
                      THEN Return(F64Quo(F64Add(intPart, F64One), multiplier), Nil)
                      ELSE Return(F64Quo(F64Sub(intPart, F64One), multiplier), Nil)
                 ELSE Return(F64Quo(MathRound(scaled), multiplier), Nil)
      [] mode = RoundCeiling ->
             Return(F64Quo(MathCeil(F64Mul(value, multiplier)), multiplier), Nil)
      [] mode = RoundFloor ->
             Return(F64Quo(MathFloor(F64Mul(value, multiplier)), multiplier), Nil)
      [] OTHER -> Return(Double(FALSE, <<>>, 0), ErrInvalidRounding)

\* RoundFloat64 in binary64; fused tells whether value*multiplier+0.5 and
\* value*multiplier-0.5 are rounded once
RoundFloat64Binary64(value, decimals, mode, fused) ==
    IF decimals < 0
    THEN Return(Double(FALSE, <<>>, 0), ErrInvalidPrecision)
    ELSE IF IsNaN(value) \/ IsInf(value)
    THEN Return(value, Nil)
    ELSE RoundFloat64SwitchBinary64(value, MathPow10(decimals), mode, fused)

(***************************************************************************)
(* Calls of RoundFloat64 with decimal literals, in binary64.               *)
(***************************************************************************)
\* the literal 10.555 of the tests, in thousandths
TestLiteral == 10555

\* the literals v/1000 and -v/1000 for the v within LiteralSpread of
\* TestLiteral, and the special values
LiteralInputs ==
    {NaN, PosInf, NegInf} \cup
    {F64Literal(sign * v, -3) :
        sign \in {-1, 1},
        v \in (TestLiteral - LiteralSpread) .. (TestLiteral + LiteralSpread)}

InitFloat ==
    /\ pc = "call"
    /\ op = "RoundFloat64"
    /\ args \in [value : LiteralInputs, decimals : -1 .. MaxDecimals,
                  mode : ModeInputs]
    /\ ret = Pending

\* the build decides whether the multiplication and the addition are fused
CallRoundFloat64Binary64 ==
    /\ pc = "call" /\ op = "RoundFloat64"
    /\ \E fused \in BOOLEAN :
           ret' = RoundFloat64Binary64(args.value, args.decimals, args.mode, fused)
    /\ pc' = "done"
    /\ UNCHANGED <<op, args>>

NextFloat == CallRoundFloat64Binary64

SpecFloat == InitFloat /\ [][NextFloat]_vars

(***************************************************************************)
(* Calls of every integer and rounding operation of the library.           *)
(***************************************************************************)
InitAll == InitInt \/ InitUint \/ InitLimit \/ InitRound

NextAll == NextInt \/ NextUint \/ NextLimit \/ NextRound

SpecAll == InitAll /\ [][NextAll]_vars

(***************************************************************************)
(* Package safedec: the wrapper of decimal.Decimal.                        *)
(*                                                                         *)
(* A decimal is coef * 10^exp with an integer coefficient of any size.     *)
(* Its comparisons, its arithmetic, its roundings and String depend on     *)
(* the number only, not on the exponent it is written with, so a Decimal   *)
(* is kept here with the coefficient free of trailing zeros (zero is       *)
(* 0 * 10^0).  The coefficients of the arguments are small, which keeps    *)
(* every coefficient of the model within a machine integer.                *)
(***************************************************************************)
\* the digits after the decimal point a quotient of Decimal.Div keeps
DivisionPrecision == 16

RECURSIVE NewDecimal(_, _)
\* decimal.New(coef, exp)
NewDecimal(coef, exp) ==
    IF coef = 0 THEN [coef |-> 0, exp |-> 0]
    ELSE IF coef % 10 = 0 THEN NewDecimal(coef \div 10, exp + 1)
    ELSE [coef |-> coef, exp |-> exp]

\* Zero, One, NewFromInt
safedec_Zero == NewDecimal(0, 0)

safedec_One == NewDecimal(1, 0)

safedec_NewFromInt(value) == NewDecimal(value, 0)

\* the coefficient of d written with the exponent e <= d.exp
CoefAt(d, e) == d.coef * 10 ^ (d.exp - e)

MinExp(x, y) == IF x.exp <= y.exp THEN x.exp ELSE y.exp

Sign(n) == IF n > 0 THEN 1 ELSE IF n < 0 THEN -1 ELSE 0

RECURSIVE IntDigits(_)
\* the number of decimal digits of n > 0
IntDigits(n) == IF n = 0 THEN 0 ELSE 1 + IntDigits(n \div 10)

\* the power of ten above the leading digit of d # 0
Magnitude(d) == IntDigits(Abs(d.coef)) + d.exp

\* decimal.Cmp: -1, 0 or 1.  Numbers of one sign whose leading digits stand
\* at different powers of ten are ordered by these; the others are brought
\* to one exponent.
decimal_Cmp(x, y) ==
    IF Sign(x.coef) # Sign(y.coef) THEN Sign(Sign(x.coef) - Sign(y.coef))
    ELSE IF x.coef = 0 THEN 0
    ELSE IF Magnitude(x) # Magnitude(y)
    THEN Sign(x.coef) * Sign(Magnitude(x) - Magnitude(y))
    ELSE Sign(CoefAt(x, MinExp(x, y)) - CoefAt(y, MinExp(x, y)))

Decimal_Equal(d, other) == decimal_Cmp(d, other) = 0

Decimal_GreaterThan(d, other) == decimal_Cmp(d, other) = 1

Decimal_GreaterThanOrEqual(d, other) == decimal_Cmp(d, other) >= 0

Decimal_LessThan(d, other) == decimal_Cmp(d, other) = -1

Decimal_LessThanOrEqual(d, other) == decimal_Cmp(d, other) <= 0

Decimal_IsZero(d) == d.coef = 0

Decimal_IsNegative(d) == d.coef < 0

Decimal_IsPositive(d) == d.coef > 0

Decimal_Add(d, other) ==
    NewDecimal(CoefAt(d, MinExp(d, other)) + CoefAt(other, MinExp(d, other)),
               MinExp(d, other))

Decimal_Sub(d, other) ==
    NewDecimal(CoefAt(d, MinExp(d, other)) - CoefAt(other, MinExp(d, other)),
               MinExp(d, other))

Decimal_Mul(d, other) == NewDecimal(d.coef * other.coef, d.exp + other.exp)

Decimal_SubNonNegative(d, other) ==
    IF Decimal_IsNegative(Decimal_Sub(d, other))
    THEN Return(safedec_Zero, ErrNegativeValue)
    ELSE Return(Decimal_Sub(d, other), Nil)

RECURSIVE Zeros(_)
Zeros(n) == IF n <= 0 THEN "" ELSE "0" \o Zeros(n - 1)

\* Decimal.String: fixed point, without trailing zeros
Decimal_String(d) ==
    (IF d.coef < 0 THEN "-" ELSE "") \o
    (IF d.exp >= 0
     THEN ToString(Abs(d.coef)) \o Zeros(d.exp)
     ELSE IF Magnitude(d) <= 0
     THEN "0." \o Zeros(-Magnitude(d)) \o ToString(Abs(d.coef))
     ELSE ToString(Abs(d.coef) \div 10 ^ (-d.exp)) \o "." \o
          Zeros(-d.exp - IntDigits(Abs(d.coef) % 10 ^ (-d.exp))) \o
          ToString(Abs(d.coef) % 10 ^ (-d.exp)))

RECURSIVE QuoHalfAway(_, _, _, _)
\* n/d * 10^exp for n >= 0, d > 0, kept to the digits DivisionPrecision
\* allows and rounded half away from zero beyond them: the numerator takes
\* a further digit until the division leaves nothing
QuoHalfAway(n, d, exp, sign) ==
    IF n % d = 0 /\ exp >= -DivisionPrecision
    THEN NewDecimal(sign * (n \div d), exp)
    ELSE IF exp > -DivisionPrecision
    THEN QuoHalfAway(n * 10, d, exp - 1, sign)
    ELSE LET den == d * 10 ^ (-DivisionPrecision - exp)
         IN  NewDecimal(sign * (IF 2 * (n % den) >= den
                                THEN n \div den + 1
                                ELSE n \div den),
                        -DivisionPrecision)

\* decimal.Div: the quotient to DivisionPrecision digits
decimal_Div(x, y) ==
    QuoHalfAway(Abs(x.coef), Abs(y.coef), x.exp - y.exp,
                Sign(x.coef) * Sign(y.coef))

Decimal_Div(d, other) ==
    IF Decimal_IsZero(other)
    THEN Return(safedec_Zero, ErrDivideByZero)
    ELSE Return(decimal_Div(d, other), Nil)

\* the digits of d that lie beyond places: their count, the magnitude
\* without them, and what they are worth
Dropped(d, places) == -places - d.exp

Kept(d, places) == Abs(d.coef) \div 10 ^ Dropped(d, places)

Rest(d, places) == Abs(d.coef) % 10 ^ Dropped(d, places)

\* decimal.RoundDown: toward zero
decimal_RoundDown(d, places) ==
    IF Dropped(d, places) <= 0 THEN d
    ELSE NewDecimal(Sign(d.coef) * Kept(d, places), -places)

\* decimal.RoundUp: away from zero
decimal_RoundUp(d, places) ==
    IF Dropped(d, places) <= 0 THEN d
    ELSE NewDecimal(Sign(d.coef) * (Kept(d, places) + 1), -places)

\* decimal.Round: to the nearest, halves away from zero
decimal_Round(d, places) ==
    IF Dropped(d, places) <= 0 THEN d
    ELSE IF 2 * Rest(d, places) >= 10 ^ Dropped(d, places)
    THEN NewDecimal(Sign(d.coef) * (Kept(d, places) + 1), -places)
    ELSE NewDecimal(Sign(d.coef) * Kept(d, places), -places)

\* decimal.RoundBank: to the nearest, halves to the even digit
decimal_RoundBank(d, places) ==
    IF Dropped(d, places) <= 0 THEN d
    ELSE IF \/ 2 * Rest(d, places) > 10 ^ Dropped(d, places)
            \/ /\ 2 * Rest(d, places) = 10 ^ Dropped(d, places)
               /\ Kept(d, places) % 2 = 1
    THEN NewDecimal(Sign(d.coef) * (Kept(d, places) + 1), -places)
    ELSE NewDecimal(Sign(d.coef) * Kept(d, places), -places)

\* decimal.RoundCeil: toward positive infinity
decimal_RoundCeil(d, places) ==
    IF d.coef >= 0 THEN decimal_RoundUp(d, places) ELSE decimal_RoundDown(d, places)

\* decimal.RoundFloor: toward negative infinity
decimal_RoundFloor(d, places) ==
    IF d.coef >= 0 THEN decimal_RoundDown(d, places) ELSE decimal_RoundUp(d, places)

Decimal_Round(d, places, mode) ==
    CASE mode = RoundDown -> Return(decimal_RoundDown(d, places), Nil)
      [] mode = RoundUp -> Return(decimal_RoundUp(d, places), Nil)
      [] mode = RoundHalfUp -> Return(decimal_Round(d, places), Nil)
      [] mode = RoundHalfEven -> Return(decimal_RoundBank(d, places), Nil)
      [] mode = RoundCeiling -> Return(decimal_RoundCeil(d, places), Nil)
      [] mode = RoundFloor -> Return(decimal_RoundFloor(d, places), Nil)
      [] OTHER -> Return(safedec_Zero, ErrInvalidRounding)

Decimal_DivRound(d, other, places, mode) ==
    IF Decimal_IsZero(other)
    THEN Return(safedec_Zero, ErrDivideByZero)
    ELSE CASE mode = RoundDown ->
                  Return(decimal_RoundDown(decimal_Div(d, other), places), Nil)
           [] mode = RoundUp ->
                  Return(decimal_RoundUp(decimal_Div(d, other), places), Nil)
           [] mode = RoundHalfUp ->
                  Return(decimal_Round(decimal_Div(d, other), places), Nil)
           [] mode = RoundHalfEven ->
                  Return(decimal_RoundBank(decimal_Div(d, other), places), Nil)
           [] mode = RoundCeiling ->
                  Return(decimal_RoundCeil(decimal_Div(d, other), places), Nil)
           [] mode = RoundFloor ->
                  Return(decimal_RoundFloor(decimal_Div(d, other), places), Nil)
           [] OTHER -> Return(safedec_Zero, ErrInvalidRounding)

(***************************************************************************)
(* Package rules.  A function that returns only an error returns it in     *)
(* the field err.                                                          *)
(***************************************************************************)
ReturnError(e) == [err |-> e]

\* ValidateTransfer that hands on the error of SubNonNegative as it is
TransferRule_ValidateTransfer_BalanceErrorAsIs(r, amount, sourceBalance, dailyTotal) ==
    IF Decimal_LessThan(amount, r.MinAmount)
    THEN ReturnError(NewLimitError(Decimal_String(amount),
                                   Decimal_String(r.MinAmount), "minimum transfer"))
    ELSE IF Decimal_GreaterThan(amount, r.MaxAmount)
    THEN ReturnError(NewLimitError(Decimal_String(amount),
                                   Decimal_String(r.MaxAmount), "maximum transfer"))
    ELSE IF Decimal_GreaterThan(Decimal_Add(dailyTotal, amount), r.DailyLimit)
    THEN ReturnError(NewLimitError(Decimal_String(Decimal_Add(dailyTotal, amount)),
                                   Decimal_String(r.DailyLimit), "daily transfer"))
    ELSE IF ~r.AllowNegativeBalance
    THEN ReturnError(Decimal_SubNonNegative(sourceBalance, amount).err)
    ELSE ReturnError(Nil)

TransferRule_ValidateTransfer(r, amount, sourceBalance, dailyTotal) ==
    IF Decimal_LessThan(amount, r.MinAmount)
    THEN ReturnError(NewLimitError(Decimal_String(amount),
                                   Decimal_String(r.MinAmount), "minimum transfer"))
    ELSE IF Decimal_GreaterThan(amount, r.MaxAmount)
    THEN ReturnError(NewLimitError(Decimal_String(amount),
                                   Decimal_String(r.MaxAmount), "maximum transfer"))
    ELSE IF Decimal_GreaterThan(Decimal_Add(dailyTotal, amount), r.DailyLimit)
    THEN ReturnError(NewLimitError(Decimal_String(Decimal_Add(dailyTotal, amount)),
                                   Decimal_String(r.DailyLimit), "daily transfer"))
    ELSE IF /\ ~r.AllowNegativeBalance
            /\ Decimal_SubNonNegative(sourceBalance, amount).err # Nil
    THEN ReturnError(NewLimitError(Decimal_String(amount),
                                   Decimal_String(sourceBalance),
                                   "available balance"))
    ELSE ReturnError(Nil)

\* ValidatePrice that tests the range before the sign
PricingRule_ValidatePrice_RangeFirst(r, price) ==
    IF Decimal_IsZero(price) /\ ~r.AllowZeroPrice
    THEN ReturnError(NewLimitError("0", Decimal_String(r.MinPrice), "minimum price"))
    ELSE IF ~Decimal_IsZero(price) /\ Decimal_LessThan(price, r.MinPrice)
    THEN ReturnError(NewLimitError(Decimal_String(price),
                                   Decimal_String(r.MinPrice), "minimum price"))
    ELSE IF Decimal_IsNegative(price) /\ ~r.AllowNegativePrice
    THEN ReturnError(ErrNegativeValue)
    ELSE IF Decimal_GreaterThan(price, r.MaxPrice)
    THEN ReturnError(NewLimitError(Decimal_String(price),
                                   Decimal_String(r.MaxPrice), "maximum price"))
    ELSE ReturnError(Nil)

PricingRule_ValidatePrice(r, price) ==
    IF Decimal_IsZero(price) /\ ~r.AllowZeroPrice
    THEN ReturnError(NewLimitError("0", Decimal_String(r.MinPrice), "minimum price"))
    ELSE IF Decimal_IsNegative(price) /\ ~r.AllowNegativePrice
    THEN ReturnError(ErrNegativeValue)
    ELSE IF /\ ~Decimal_IsZero(price) /\ ~Decimal_IsNegative(price)
            /\ Decimal_LessThan(price, r.MinPrice)
    THEN ReturnError(NewLimitError(Decimal_String(price),
                                   Decimal_String(r.MinPrice), "minimum price"))
    ELSE IF Decimal_GreaterThan(price, r.MaxPrice)
    THEN ReturnError(NewLimitError(Decimal_String(price),
                                   Decimal_String(r.MaxPrice), "maximum price"))
    ELSE ReturnError(Nil)

\* CalculateDiscount without the cap
DiscountRule_CalculateDiscount_NoCap(r, purchaseAmount, discountPercent) ==
    IF Decimal_LessThan(purchaseAmount, r.MinPurchaseAmount)
    THEN Return(safedec_Zero,
                NewLimitError(Decimal_String(purchaseAmount),
                              Decimal_String(r.MinPurchaseAmount),
                              "minimum purchase for discount"))
    ELSE IF Decimal_IsNegative(discountPercent)
    THEN Return(safedec_Zero, ErrNegativeValue)
    ELSE IF Decimal_GreaterThan(discountPercent, r.MaxDiscountPercent)
    THEN Return(safedec_Zero,
                NewLimitError(Decimal_String(discountPercent),
                              Decimal_String(r.MaxDiscountPercent),
                              "maximum discount percentage"))
    ELSE Decimal_Div(Decimal_Mul(purchaseAmount, discountPercent),
                     safedec_NewFromInt(100))

DiscountRule_CalculateDiscount(r, purchaseAmount, discountPercent) ==
    IF Decimal_LessThan(purchaseAmount, r.MinPurchaseAmount)
    THEN Return(safedec_Zero,
                NewLimitError(Decimal_String(purchaseAmount),
                              Decimal_String(r.MinPurchaseAmount),
                              "minimum purchase for discount"))
    ELSE IF Decimal_IsNegative(discountPercent)
    THEN Return(safedec_Zero, ErrNegativeValue)
    ELSE IF Decimal_GreaterThan(discountPercent, r.MaxDiscountPercent)
    THEN Return(safedec_Zero,
                NewLimitError(Decimal_String(discountPercent),
                              Decimal_String(r.MaxDiscountPercent),
                              "maximum discount percentage"))
    ELSE LET hundred == safedec_NewFromInt(100)
             quo == Decimal_Div(Decimal_Mul(purchaseAmount, discountPercent), hundred)
             discountAmount == quo.val
         IN  IF quo.err # Nil
             THEN Return(safedec_Zero, quo.err)
             ELSE IF Decimal_GreaterThan(discountAmount, r.MaxDiscountAmount)
             THEN Return(r.MaxDiscountAmount, Nil)
             ELSE Return(discountAmount, Nil)

TaxRule_CalculateTax(r, taxableAmount) ==
    IF Decimal_LessThan(taxableAmount, r.MinTaxableAmount)
    THEN Return(safedec_Zero, Nil)
    ELSE LET hundred == safedec_NewFromInt(100)
             quo == Decimal_Div(Decimal_Mul(taxableAmount, r.TaxRate), hundred)
             rounded == Decimal_Round(quo.val, r.RoundingPrecision, r.RoundingMode)
             taxAmount == rounded.val
         IN  IF quo.err # Nil
             THEN Return(safedec_Zero, quo.err)
             ELSE IF rounded.err # Nil
             THEN Return(safedec_Zero, rounded.err)
             ELSE IF Decimal_GreaterThan(taxAmount, r.MaxTaxAmount)
             THEN Return(r.MaxTaxAmount, Nil)
             ELSE Return(taxAmount, Nil)

(***************************************************************************)
(* Calls of packages safedec and rules.                                    *)
(***************************************************************************)
\* the amounts, limits and percentages: the multiples of 1/2 from -1 to
\* MaxHalves/2
AmountInputs == {NewDecimal(5 * k, -1) : k \in -2 .. MaxHalves}

\* an amount with more digits after the point than a quotient keeps
TinyInputs == {NewDecimal(5, 1 - DivisionPrecision)}

\* the decimals that are rounded: up to MaxPlaces + 1 digits after the point
RoundInputs ==
    {NewDecimal(sign * c, -e) :
        sign \in {-1, 1}, c \in 0 .. MaxCoef, e \in 0 .. MaxPlaces + 1}

PlacesInputs == 0 .. MaxPlaces

\* the divisors: zero and decimals whose quotients end after a few digits
DivisorInputs ==
    {NewDecimal(sign * c, -e) : sign \in {-1, 1}, c \in {0, 1, 2, 4, 5}, e \in 0 .. 1}

\* the amounts and the rules of the tax scenarios, and small ones
TaxableInputs ==
    {NewDecimal(12345, -2), NewDecimal(15000, 0), NewDecimal(5, 0)} \cup AmountInputs

TaxRateInputs == {NewDecimal(10, 0), NewDecimal(75, -1), NewDecimal(5, -1)}

MaxTaxInputs == {NewDecimal(1000, 0), NewDecimal(5, -1)}

InitRules ==
    /\ pc = "call"
    /\ ret = Pending
    /\ \/ /\ op = "Decimal.Round"
          /\ args \in [d : RoundInputs, places : PlacesInputs, mode : ModeInputs]
       \/ /\ op = "Decimal.DivRound"
          /\ args \in [d : {x \in RoundInputs : x.exp >= 0}, other : DivisorInputs,
                        places : PlacesInputs, mode : ModeInputs]
       \/ /\ op = "TransferRule.ValidateTransfer"
          /\ args \in [r : [MaxAmount : AmountInputs, MinAmount : AmountInputs,
                             DailyLimit : AmountInputs,
                             AllowNegativeBalance : BOOLEAN],
                        amount : AmountInputs, sourceBalance : AmountInputs,
                        dailyTotal : AmountInputs]
       \/ /\ op = "PricingRule.ValidatePrice"
          /\ args \in [r : [MinPrice : AmountInputs, MaxPrice : AmountInputs,
                             AllowZeroPrice : BOOLEAN,
                             AllowNegativePrice : BOOLEAN],
                        price : AmountInputs]
       \/ /\ op = "DiscountRule.CalculateDiscount"
          /\ args \in [r : [MaxDiscountPercent : AmountInputs,
                             MinPurchaseAmount : AmountInputs,
                             MaxDiscountAmount : AmountInputs],
                        purchaseAmount : AmountInputs \cup TinyInputs,
                        discountPercent : AmountInputs]
       \/ /\ op = "TaxRule.CalculateTax"
          /\ args \in [r : [TaxRate : TaxRateInputs,
                             MinTaxableAmount : {safedec_Zero, safedec_One},
                             MaxTaxAmount : MaxTaxInputs,
                             RoundingMode : ModeInputs,
                             RoundingPrecision : PlacesInputs],
                        taxableAmount : TaxableInputs]

CallDecimalRound ==
    /\ pc = "call" /\ op = "Decimal.Round"
    /\ ret' = Decimal_Round(args.d, args.places, args.mode)
    /\ pc' = "done"
    /\ UNCHANGED <<op, args>>

CallDecimalDivRound ==
    /\ pc = "call" /\ op = "Decimal.DivRound"
    /\ ret' = Decimal_DivRound(args.d, args.other, args.places, args.mode)
    /\ pc' = "done"
    /\ UNCHANGED <<op, args>>

CallValidateTransfer ==
    /\ pc = "call" /\ op = "TransferRule.ValidateTransfer"
    /\ ret' = TransferRule_ValidateTransfer(args.r, args.amount,
                                            args.sourceBalance, args.dailyTotal)
    /\ pc' = "done"
    /\ UNCHANGED <<op, args>>

CallValidatePrice ==
    /\ pc = "call" /\ op = "PricingRule.ValidatePrice"
    /\ ret' = PricingRule_ValidatePrice(args.r, args.price)
    /\ pc' = "done"
    /\ UNCHANGED <<op, args>>

CallCalculateDiscount ==
    /\ pc = "call" /\ op = "DiscountRule.CalculateDiscount"
    /\ ret' = DiscountRule_CalculateDiscount(args.r, args.purchaseAmount,
                                             args.discountPercent)
    /\ pc' = "done"
    /\ UNCHANGED <<op, args>>

CallCalculateTax ==
    /\ pc = "call" /\ op = "TaxRule.CalculateTax"
    /\ ret' = TaxRule_CalculateTax(args.r, args.taxableAmount)
    /\ pc' = "done"
    /\ UNCHANGED <<op, args>>

NextRules ==
    \/ CallDecimalRound
    \/ CallDecimalDivRound
    \/ CallValidateTransfer
    \/ CallValidatePrice
    \/ CallCalculateDiscount
    \/ CallCalculateTax

SpecRules == InitRules /\ [][NextRules]_vars

(***************************************************************************)
(* Concurrent callers.  Each caller runs one call in a frame of its own:   *)
(* pc, op, args and ret are here functions of the caller, and args[c]      *)
(* holds the parameters of the call and the local variable result that     *)
(* the bounded variants assign from the inner operation before they test   *)
(* it.  The steps of different callers interleave; a call without such a   *)
(* local is one step.  The packages declare no variable that a call        *)
(* assigns, so every step reads and writes the frame of its caller only.   *)
(***************************************************************************)
Callers == 1 .. NumCallers

\* local variables in one place for all callers, as variables of the package
\* would be
FrameOf_Shared(c) == 1

\* the frame the locals of caller c live in: its own
FrameOf(c) == c

\* the calls that are made
ConcurrentCalls ==
    [op : {"safeint.Add"}, a : {MaxInt64, 3}, b : {-1, 2}] \cup
    [op : {"safeint.MulWithLimit"}, a : {MaxInt64, 3}, b : {-1, 2}, bound : {5},
     result : {Pending}] \cup
    [op : {"safeuint.SubWithFloor"}, a : {0, 3}, b : {1, 2}, bound : {1},
     result : {Pending}] \cup
    [op : {"RoundInt64"}, value : {15, -25}, unit : {10},
     mode : {RoundDown, RoundHalfEven}]

InitConcurrent ==
    /\ pc = [c \in Callers |-> "call"]
    /\ args \in [Callers -> ConcurrentCalls]
    /\ op = [c \in Callers |-> args[c].op]
    /\ ret = [c \in Callers |-> Pending]

\* result, err := Mul(a, b) and result, err := Sub(a, b)
InnerResult(f) ==
    CASE f.op = "safeint.MulWithLimit" -> safeint_Mul(f.a, f.b)
      [] f.op = "safeuint.SubWithFloor" -> safeuint_Sub(f.a, f.b)

\* the statements after the assignment of result and err
OuterResult(f, result) ==
    CASE f.op = "safeint.MulWithLimit" ->
             IF result.err # Nil
             THEN Return(0, result.err)
             ELSE IF result.val > f.bound
             THEN Return(0, NewLimitError(result.val, f.bound, "multiplication"))
             ELSE Return(result.val, Nil)
      [] f.op = "safeuint.SubWithFloor" ->
             IF result.err # Nil
             THEN Return(0, result.err)
             ELSE IF result.val < f.bound
             THEN Return(0, NewLimitError(result.val, f.bound, "subtraction floor"))
             ELSE Return(result.val, Nil)

\* a call without locals runs
CallerRuns(c) ==
    /\ pc[c] = "call" /\ op[c] \in {"safeint.Add", "RoundInt64"}
    /\ ret' = [ret EXCEPT ![c] =
                  IF op[c] = "safeint.Add"
                  THEN safeint_Add(args[c].a, args[c].b)
                  ELSE RoundInt64(args[c].value, args[c].unit, args[c].mode)]
    /\ pc' = [pc EXCEPT ![c] = "done"]
    /\ UNCHANGED <<op, args>>

\* a bounded variant assigns its local from the inner operation
CallerAssigns(c) ==
    /\ pc[c] = "call"
    /\ op[c] \in {"safeint.MulWithLimit", "safeuint.SubWithFloor"}
    /\ args' = [args EXCEPT ![FrameOf(c)].result = InnerResult(args[c])]
    /\ pc' = [pc EXCEPT ![c] = "assigned"]
    /\ UNCHANGED <<op, ret>>

\* a bounded variant tests its local and returns
CallerReturns(c) ==
    /\ pc[c] = "assigned"
    /\ ret' = [ret EXCEPT ![c] = OuterResult(args[c], args[FrameOf(c)].result)]
    /\ pc' = [pc EXCEPT ![c] = "done"]
    /\ UNCHANGED <<op, args>>

NextConcurrent ==
    \E c \in Callers : CallerRuns(c) \/ CallerAssigns(c) \/ CallerReturns(c)

SpecConcurrent == InitConcurrent /\ [][NextConcurrent]_vars

(***************************************************************************)
(* Checked arithmetic: the claims.                                         *)
(***************************************************************************)
\* the mathematical result of the call in the state
Exact ==
    CASE op \in {"safeint.Add", "safeuint.Add",
                 "safeint.AddWithLimit", "safeuint.AddWithLimit"} ->
             args.a + args.b
      [] op \in {"safeint.Sub", "safeuint.Sub",
                 "safeint.SubWithFloor", "safeuint.SubWithFloor"} ->
             args.a - args.b
      [] op \in {"safeint.Mul", "safeuint.Mul",
                 "safeint.MulWithLimit", "safeuint.MulWithLimit"} ->
             args.a * args.b

\* C1: safeint.Add and safeint.Sub return the exact sum or difference and no
\* failure when it lies in [MinInt64, MaxInt64], and an Overflow failure
\* otherwise.
C1_AddSubExactOrOverflow ==
    (pc = "done" /\ op \in {"safeint.Add", "safeint.Sub"}) =>
        IF Exact \in Int64
        THEN ret = Return(Exact, Nil)
        ELSE Is(ret.err, ErrOverflow) /\ ~Is(ret.err, ErrExceedsLimit)

\* C1 witness: Sub(0, MinInt64) has returned the Overflow failure.
C1_Witness ==
    /\ pc = "done" /\ op = "safeint.Sub"
    /\ args.a = 0 /\ args.b = MinInt64
    /\ Is(ret.err, ErrOverflow)

\* C2: safeint.Mul returns the exact product and no failure when it lies in
\* [MinInt64, MaxInt64], and an Overflow failure otherwise, in every sign
\* quadrant and for the extreme operands.
C2_MulExactOrOverflow ==
    (pc = "done" /\ op = "safeint.Mul") =>
        IF Exact \in Int64
        THEN ret = Return(Exact, Nil)
        ELSE Is(ret.err, ErrOverflow) /\ ~Is(ret.err, ErrExceedsLimit)

\* C2 witness: Mul(-1, MinInt64) has returned the Overflow failure.
C2_Witness ==
    /\ pc = "done" /\ op = "safeint.Mul"
    /\ args.a = -1 /\ args.b = MinInt64
    /\ Is(ret.err, ErrOverflow)

\* C3: safeuint.Add, Sub and Mul return the exact result and no failure when
\* it lies in [0, MaxUint64], and an Overflow failure otherwise; Sub fails
\* exactly when a < b.
C3_UintExactOrOverflow ==
    (pc = "done" /\ op \in {"safeuint.Add", "safeuint.Sub", "safeuint.Mul"}) =>
        /\ IF Exact \in Uint64
           THEN ret = Return(Exact, Nil)
           ELSE Is(ret.err, ErrOverflow) /\ ~Is(ret.err, ErrExceedsLimit)
        /\ op = "safeuint.Sub" => (Is(ret.err, ErrOverflow) <=> args.a < args.b)

\* C3 witness: Add(MaxUint64, 1) has returned the Overflow failure.
C3_Witness ==
    /\ pc = "done" /\ op = "safeuint.Add"
    /\ args.a = MaxUint64 /\ args.b = 1
    /\ Is(ret.err, ErrOverflow)

(***************************************************************************)
(* Bounded variants: the claims.                                           *)
(***************************************************************************)
\* a call of a bounded variant has returned
BoundedDone == pc = "done" /\ op \in IntBoundedOps \cup UintBoundedOps

\* the range of the operand type of the call in the state
Range == IF op \in IntBoundedOps THEN Int64 ELSE Uint64

\* the mathematical result respects the caller's bound
WithinBound ==
    IF op \in {"safeint.SubWithFloor", "safeuint.SubWithFloor"}
    THEN Exact >= args.bound
    ELSE Exact <= args.bound

\* the operator symbol and the label the failures of the call carry
Symbol ==
    CASE op \in {"safeint.AddWithLimit", "safeuint.AddWithLimit"} -> "+"
      [] op \in {"safeint.SubWithFloor", "safeuint.SubWithFloor"} -> "-"
      [] op \in {"safeint.MulWithLimit", "safeuint.MulWithLimit"} -> "*"

Label ==
    CASE op \in {"safeint.AddWithLimit", "safeuint.AddWithLimit"} -> "addition"
      [] op \in {"safeint.SubWithFloor", "safeuint.SubWithFloor"} ->
             "subtraction floor"
      [] op \in {"safeint.MulWithLimit", "safeuint.MulWithLimit"} ->
             "multiplication"

\* C14: a bounded variant returns the exact result without failure iff the
\* checked operation does not overflow and the result is within the bound,
\* the bound included, and LimitExceeded iff it does not overflow and the
\* result is outside the bound.
C14_BoundInclusive ==
    BoundedDone =>
        /\ ret.err = Nil <=> (Exact \in Range /\ WithinBound)
        /\ ret.err = Nil => ret.val = Exact
        /\ Is(ret.err, ErrExceedsLimit) <=> (Exact \in Range /\ ~WithinBound)

\* C14 witness: signed AddWithLimit(10, 20, 30) has returned 30, the limit.
C14_Witness ==
    /\ pc = "done" /\ op = "safeint.AddWithLimit"
    /\ args = [a |-> 10, b |-> 20, bound |-> 30]
    /\ ret = Return(30, Nil)

\* C15: when the checked operation overflows, a bounded variant returns its
\* Overflow failure, with the same operator symbol and operands, whatever
\* the bound is; an Overflow failure matches ErrOverflow and not
\* ErrExceedsLimit, a LimitExceeded failure ErrExceedsLimit and not ErrOverflow.
C15_OverflowPropagated ==
    BoundedDone =>
        /\ Exact \notin Range =>
              /\ ret.err = NewOverflowError(Symbol, args.a, args.b)
              /\ Is(ret.err, ErrOverflow) /\ ~Is(ret.err, ErrExceedsLimit)
        /\ ret.err.type = "LimitError" =>
              Is(ret.err, ErrExceedsLimit) /\ ~Is(ret.err, ErrOverflow)

\* C15 witness: unsigned SubWithFloor(0, 1, 0) has returned the Overflow
\* failure of Sub(0, 1).
C15_Witness ==
    /\ pc = "done" /\ op = "safeuint.SubWithFloor"
    /\ args = [a |-> 0, b |-> 1, bound |-> 0]
    /\ ret.err = NewOverflowError("-", 0, 1)

\* C16: a LimitExceeded failure carries the exact result of the operation,
\* the bound the caller passed and the label of the operation.
C16_LimitErrorFields ==
    (BoundedDone /\ Exact \in Range /\ ~WithinBound) =>
        ret.err = NewLimitError(Exact, args.bound, Label)

\* C16 witness: signed AddWithLimit(10, 30, 30) has failed with Value 40 and
\* Limit 30.
C16_Witness ==
    /\ pc = "done" /\ op = "safeint.AddWithLimit"
    /\ args = [a |-> 10, b |-> 30, bound |-> 30]
    /\ ret.err.type = "LimitError"
    /\ ret.err.Value = 40 /\ ret.err.Limit = 30
    /\ ret.err.Operation = "addition"

\* C17: whenever a safeint or safeuint operation, plain or bounded, or
\* RoundInt64 returns a failure, the value returned with it is 0.
C17_ZeroValueOnFailure ==
    (pc = "done" /\ op # "RoundFloat64" /\ ret.err # Nil) => ret.val = 0

\* C17 witness: signed MulWithLimit(5, 8, 30) has failed with LimitExceeded
\* and returned the value 0, not 40.
C17_Witness ==
    /\ pc = "done" /\ op = "safeint.MulWithLimit"
    /\ args = [a |-> 5, b |-> 8, bound |-> 30]
    /\ Is(ret.err, ErrExceedsLimit)
    /\ ret.val = 0

(***************************************************************************)
(* Rounding engine: the claims.                                            *)
(***************************************************************************)
\* a call of RoundInt64 with a valid unit has returned
RoundedInt(mode) ==
    /\ pc = "done" /\ op = "RoundInt64"
    /\ args.unit > 0 /\ args.mode = mode

\* C4: RoundInt64 returns a value that is already a multiple of unit
\* unchanged and without failure, under each of the seven modes.
C4_AlignedUnchanged ==
    \A mode \in Modes :
        (RoundedInt(mode) /\ args.value % args.unit = 0) =>
            ret = Return(args.value, Nil)

\* C5: RoundInt64 with mode Down truncates toward zero: the result is a
\* multiple of unit, no larger in magnitude than value, less than unit away
\* from value, and of the sign of value or 0.
C5_DownTruncatesTowardZero ==
    RoundedInt(RoundDown) =>
        /\ ret.err = Nil
        /\ ret.val % args.unit = 0
        /\ Abs(ret.val) <= Abs(args.value)
        /\ Abs(args.value - ret.val) < args.unit
        /\ ret.val = 0 \/ (ret.val < 0) = (args.value < 0)

\* C6: RoundInt64 with mode Up rounds away from zero: the result is a
\* multiple of unit, no smaller in magnitude than value and less than unit
\* away from value.
C6_UpAwayFromZero ==
    RoundedInt(RoundUp) =>
        /\ ret.err = Nil
        /\ ret.val % args.unit = 0
        /\ Abs(ret.val) >= Abs(args.value)
        /\ Abs(ret.val - args.value) < args.unit

\* the call RoundInt64(value, unit, mode) has returned
RoundInt64Of(value, unit, mode) ==
    /\ pc = "done" /\ op = "RoundInt64"
    /\ args = [value |-> value, unit |-> unit, mode |-> mode]

RoundedUnrecognized ==
    /\ pc = "done" /\ op \in {"RoundInt64", "RoundFloat64"}
    /\ args.mode \notin Modes

\* C8 as stated: an unrecognized mode passed to RoundInt64 or RoundFloat64
\* yields the InvalidRoundingMode failure whatever the other arguments are.
C8_UnrecognizedModeAlwaysFails ==
    RoundedUnrecognized => ret.err = ErrInvalidRounding

\* C8 amended: an unrecognized mode yields InvalidRoundingMode when the other
\* arguments are valid and finite; a unit <= 0 or decimals < 0 yields
\* InvalidPrecision instead, and RoundFloat64 with decimals >= 0 returns a
\* NaN or infinite value unchanged without failure.
C8_UnrecognizedModeAfterOtherChecks ==
    RoundedUnrecognized =>
        IF op = "RoundInt64"
        THEN IF args.unit <= 0
             THEN ret.err = ErrInvalidPrecision
             ELSE ret.err = ErrInvalidRounding
        ELSE IF args.decimals < 0
             THEN ret.err = ErrInvalidPrecision
             ELSE IF IsNaN(args.value) \/ IsInf(args.value)
             THEN ret = Return(args.value, Nil)
             ELSE ret.err = ErrInvalidRounding

\* C8 witness: RoundInt64 with an unrecognized mode and unit 0 has returned
\* the InvalidPrecision failure.
C8_Witness ==
    /\ RoundedUnrecognized /\ op = "RoundInt64"
    /\ args.unit = 0
    /\ ret.err = ErrInvalidPrecision

\* C9: for an even unit and a value exactly halfway between two multiples
\* of unit, RoundInt64 with mode HalfEven returns a multiple of unit at
\* distance unit/2 from value whose quotient by unit is even.
C9_HalfEvenParity ==
    (/\ RoundedInt(RoundHalfEven)
     /\ args.unit % 2 = 0
     /\ 2 * Abs(RemInt64(args.value, args.unit)) = args.unit) =>
        /\ ret.err = Nil
        /\ ret.val % args.unit = 0
        /\ 2 * Abs(ret.val - args.value) = args.unit
        /\ (ret.val \div args.unit) % 2 = 0

\* C10: for every unit > 0 and every value not exactly halfway between two
\* multiples of unit, RoundInt64 with mode HalfEven returns what mode HalfUp
\* returns, and the result is less than unit/2 away from value.
C10_HalfEvenNearest ==
    (/\ RoundedInt(RoundHalfEven)
     /\ 2 * Abs(RemInt64(args.value, args.unit)) # args.unit) =>
        /\ ret = RoundInt64(args.value, args.unit, RoundHalfUp)
        /\ 2 * Abs(ret.val - args.value) < args.unit

\* the multiples of unit next to value: the greatest one <= value and the
\* least one >= value, over the mathematical integers
FloorMultiple(value, unit) == (value \div unit) * unit

CeilingMultiple(value, unit) == -(((-value) \div unit) * unit)

\* C11: RoundInt64 with mode HalfUp returns the multiple of unit nearest to
\* value, and the one farther from zero when value is exactly halfway.
C11_HalfUpNearest ==
    RoundedInt(RoundHalfUp) =>
        /\ ret.err = Nil
        /\ ret.val % args.unit = 0
        /\ 2 * Abs(ret.val - args.value) <= args.unit
        /\ 2 * Abs(ret.val - args.value) = args.unit =>
               Abs(ret.val) > Abs(args.value)

\* C12: RoundInt64 with mode HalfDown returns the multiple of unit nearest to
\* value, the one nearer to zero when value is exactly halfway, and what mode
\* HalfUp returns when it is not.
C12_HalfDownNearest ==
    RoundedInt(RoundHalfDown) =>
        /\ ret.err = Nil
        /\ ret.val % args.unit = 0
        /\ 2 * Abs(ret.val - args.value) <= args.unit
        /\ 2 * Abs(ret.val - args.value) = args.unit =>
               Abs(ret.val) < Abs(args.value)
        /\ 2 * Abs(RemInt64(args.value, args.unit)) # args.unit =>
               ret = RoundInt64(args.value, args.unit, RoundHalfUp)

\* C13: RoundInt64 with mode Ceiling returns the least multiple of unit that
\* is >= value, and with mode Floor the greatest multiple of unit that is
\* <= value, whatever the sign of value.
C13_CeilingFloor ==
    /\ RoundedInt(RoundCeiling) =>
           ret = Return(CeilingMultiple(args.value, args.unit), Nil)
    /\ RoundedInt(RoundFloor) =>
           ret = Return(FloorMultiple(args.value, args.unit), Nil)

\* x / y and x % y truncated toward zero, over the mathematical integers
QuoZ(x, y) ==
    IF (x < 0) = (y < 0) THEN Abs(x) \div Abs(y) ELSE -(Abs(x) \div Abs(y))

RemZ(x, y) == x - y * QuoZ(x, y)

\* what the arms of RoundInt64 compute when no intermediate (value + unit - 1,
\* value +/- unit/2, -value, (quotient +/- 1) * unit, the final product) is
\* reduced to the machine word
RoundInt64Unbounded(value, unit, mode) ==
    LET halfUnit == QuoZ(unit, 2)
        quotient == QuoZ(value, unit)
        QT(x) == QuoZ(x, unit) * unit
        HalfUp == IF value >= 0 THEN QT(value + halfUnit)
                                ELSE QT(value - halfUnit)
    IN  CASE mode = RoundDown ->
               IF value >= 0 THEN QT(value) ELSE QT(value + unit - 1)
          [] mode = RoundUp ->
               IF value >= 0 THEN QT(value + unit - 1) ELSE QT(value)
          [] mode = RoundHalfUp -> HalfUp
          [] mode = RoundHalfDown ->
               IF value >= 0
               THEN IF RemZ(value, unit) = halfUnit THEN QT(value) ELSE HalfUp
               ELSE IF RemZ(-value, unit) = halfUnit THEN QT(value) ELSE HalfUp
          [] mode = RoundHalfEven ->
               IF RemZ(value, unit) = halfUnit \/ RemZ(value, unit) = -halfUnit
               THEN IF RemZ(quotient, 2) = 0
                    THEN quotient * unit
                    ELSE IF quotient >= 0
                    THEN (quotient + 1) * unit
                    ELSE (quotient - 1) * unit
               ELSE HalfUp
          [] mode = RoundCeiling ->
               IF RemZ(value, unit) = 0
               THEN value
               ELSE IF value > 0 THEN QT(value + unit - 1) ELSE QT(value)
          [] mode = RoundFloor ->
               IF RemZ(value, unit) = 0
               THEN value
               ELSE IF value > 0 THEN QT(value) ELSE QT(value - unit + 1)

\* C18: for every value, every unit > 0 and each of the seven modes,
\* RoundInt64 returns a failure or the multiple its arm computes over the
\* mathematical integers, never a value produced by the wraparound of an
\* intermediate.
C18_NoSilentWraparound ==
    \A mode \in Modes :
        RoundedInt(mode) =>
            \/ ret.err # Nil
            \/ ret.val = RoundInt64Unbounded(args.value, args.unit, mode)

\* C19: RoundInt64 returns the InvalidPrecision failure for every unit <= 0
\* and RoundFloat64 for every decimals < 0, for every value and each of the
\* seven modes; with unit >= 1 and with decimals >= 0 neither does.
C19_PrecisionValidation ==
    (pc = "done" /\ args.mode \in Modes) =>
        /\ op = "RoundInt64" =>
              IF args.unit <= 0
              THEN ret = Return(0, ErrInvalidPrecision)
              ELSE ret.err # ErrInvalidPrecision
        /\ op = "RoundFloat64" =>
              IF args.decimals < 0
              THEN ret.err = ErrInvalidPrecision
              ELSE ret.err # ErrInvalidPrecision

\* C19 witness: RoundInt64 with unit 1 has returned without failure.
C19_Witness ==
    /\ pc = "done" /\ op = "RoundInt64"
    /\ args.unit = 1 /\ args.mode = RoundHalfUp /\ args.value = 155
    /\ ret = Return(155, Nil)

\* C20: for the value NaN, +Inf or -Inf, every decimals >= 0 and every mode,
\* RoundFloat64 returns the value unchanged and no failure.
C20_SpecialValuesPassThrough ==
    (/\ pc = "done" /\ op = "RoundFloat64"
     /\ args.decimals >= 0
     /\ IsNaN(args.value) \/ IsInf(args.value)) =>
        ret = Return(args.value, Nil)

\* C20 witness: RoundFloat64(-Inf, 0, HalfEven) has returned -Inf.
C20_Witness ==
    /\ pc = "done" /\ op = "RoundFloat64"
    /\ args = [value |-> NegInf, decimals |-> 0, mode |-> RoundHalfEven]
    /\ ret = Return(NegInf, Nil)

(***************************************************************************)
(* The floating-point path in binary64: the claims.                        *)
(***************************************************************************)
\* RoundFloat64(lit/1000, 2, mode) has returned want/100 and no failure
FloatScenario(lit, mode, want) ==
    (/\ pc = "done"
     /\ args = [value |-> F64Literal(lit, -3), decimals |-> 2, mode |-> mode]) =>
        ret = Return(F64Literal(want, -2), Nil)

\* C21: in binary64 arithmetic RoundFloat64(10.555, 2, HalfUp) = 10.56,
\* RoundFloat64(10.555, 2, Down) = 10.55, RoundFloat64(10.555, 2, HalfDown)
\* = 10.55, RoundFloat64(10.545, 2, HalfEven) = 10.54 and
\* RoundFloat64(10.555, 2, HalfEven) = 10.56.
C21_FloatScenarios ==
    /\ FloatScenario(10555, RoundHalfUp, 1056)
    /\ FloatScenario(10555, RoundDown, 1055)
    /\ FloatScenario(10555, RoundHalfDown, 1055)
    /\ FloatScenario(10545, RoundHalfEven, 1054)
    /\ FloatScenario(10555, RoundHalfEven, 1056)

\* C21 witness: RoundFloat64(10.555, 2, HalfEven) has returned 10.56.
C21_Witness ==
    /\ pc = "done"
    /\ args = [value |-> F64Literal(10555, -3), decimals |-> 2,
               mode |-> RoundHalfEven]
    /\ ret = Return(F64Literal(1056, -2), Nil)

(***************************************************************************)
(* Packages safedec and rules: the claims.                                 *)
(***************************************************************************)
\* C22: Decimal.Round, and Decimal.DivRound with a non-zero divisor, succeed
\* for each of the seven modes and return InvalidRoundingMode only for a
\* mode outside them; TaxRule.CalculateTax configured with one of the seven
\* modes never fails with InvalidRoundingMode.
C22_WrapperAcceptsSevenModes ==
    pc = "done" =>
        /\ op = "Decimal.Round" =>
              IF args.mode \in Modes
              THEN ret.err = Nil
              ELSE ret.err = ErrInvalidRounding
        /\ (op = "Decimal.DivRound" /\ args.other.coef # 0) =>
              IF args.mode \in Modes
              THEN ret.err = Nil
              ELSE ret.err = ErrInvalidRounding
        /\ (op = "TaxRule.CalculateTax" /\ args.r.RoundingMode \in Modes) =>
              ~Is(ret.err, ErrInvalidRounding)

\* an amount of the rules in tenths
Tenths(d) == d.coef * 10 ^ (d.exp + 1)

\* the call of ValidateTransfer in the state meets every condition
TransferAllowed ==
    /\ Tenths(args.r.MinAmount) <= Tenths(args.amount)
    /\ Tenths(args.amount) <= Tenths(args.r.MaxAmount)
    /\ Tenths(args.dailyTotal) + Tenths(args.amount) <= Tenths(args.r.DailyLimit)
    /\ \/ args.r.AllowNegativeBalance
       \/ Tenths(args.sourceBalance) - Tenths(args.amount) >= 0

\* C24: ValidateTransfer returns no error exactly when MinAmount <= amount
\* <= MaxAmount, dailyTotal + amount <= DailyLimit and (AllowNegativeBalance
\* or sourceBalance - amount >= 0); every rejection is of kind ExceedsLimit
\* and never NegativeValue; the arguments are not modified.
C24_ValidateTransfer ==
    /\ []((pc = "done" /\ op = "TransferRule.ValidateTransfer") =>
            /\ ret.err = Nil <=> TransferAllowed
            /\ ret.err # Nil =>
                  /\ Is(ret.err, ErrExceedsLimit)
                  /\ ~Is(ret.err, ErrNegativeValue))
    /\ [][op = "TransferRule.ValidateTransfer" => args' = args]_vars

\* C24 witness: a transfer within every limit but above the balance of an
\* account that may not go negative has been rejected.
C24_Witness ==
    /\ pc = "done" /\ op = "TransferRule.ValidateTransfer"
    /\ ~args.r.AllowNegativeBalance
    /\ Tenths(args.amount) = 15 /\ Tenths(args.sourceBalance) = 10
    /\ ret.err.type = "LimitError" /\ ret.err.Operation = "available balance"

\* the clauses of C25 about prices that are negative, positive, or allowed
\* though not positive
PriceClauses ==
    /\ (Tenths(args.price) < 0 /\ ~args.r.AllowNegativePrice) =>
          /\ ret.err = ErrNegativeValue
          /\ ~Is(ret.err, ErrExceedsLimit)
    /\ Tenths(args.price) > 0 =>
          (ret.err = Nil <=>
              /\ Tenths(args.r.MinPrice) <= Tenths(args.price)
              /\ Tenths(args.price) <= Tenths(args.r.MaxPrice))
    /\ (\/ Tenths(args.price) = 0 /\ args.r.AllowZeroPrice
        \/ Tenths(args.price) < 0 /\ args.r.AllowNegativePrice) =>
          (ret.err = Nil <=> Tenths(args.price) <= Tenths(args.r.MaxPrice))

\* C25 as stated: a zero price is rejected with ExceedsLimit iff
\* AllowZeroPrice is false; a negative price that is not allowed is rejected
\* with NegativeValue; a positive price is accepted iff MinPrice <= price <=
\* MaxPrice; an allowed zero or negative price is accepted iff price <=
\* MaxPrice.
C25_ValidatePriceAsStated ==
    (pc = "done" /\ op = "PricingRule.ValidatePrice") =>
        /\ Tenths(args.price) = 0 =>
              (Is(ret.err, ErrExceedsLimit) <=> ~args.r.AllowZeroPrice)
        /\ PriceClauses

\* C25 amended: a zero price is rejected with ExceedsLimit if AllowZeroPrice
\* is false (an allowed zero price is still rejected with ExceedsLimit when
\* MaxPrice is negative); the other clauses as stated.
C25_ValidatePrice ==
    (pc = "done" /\ op = "PricingRule.ValidatePrice") =>
        /\ (Tenths(args.price) = 0 /\ ~args.r.AllowZeroPrice) =>
              Is(ret.err, ErrExceedsLimit)
        /\ PriceClauses

\* C25 witness: an allowed zero price has been rejected under a negative
\* MaxPrice.
C25_Witness ==
    /\ pc = "done" /\ op = "PricingRule.ValidatePrice"
    /\ Tenths(args.price) = 0 /\ args.r.AllowZeroPrice
    /\ Tenths(args.r.MaxPrice) < 0
    /\ ret.err.type = "LimitError" /\ ret.err.Operation = "maximum price"

\* the integer n/10^k rounded to an integer under a mode, n/10^k taken as
\* the exact quotient
ExactRound(n, k, mode) ==
    LET unit == 10 ^ k
        floor == n \div unit
        ceil == -((-n) \div unit)
        twice == 2 * (n - floor * unit)
    IN  CASE mode = RoundDown -> IF n >= 0 THEN floor ELSE ceil
          [] mode = RoundUp -> IF n >= 0 THEN ceil ELSE floor
          [] mode = RoundHalfUp ->
                 IF twice > unit \/ (twice = unit /\ n >= 0) THEN ceil ELSE floor
          [] mode = RoundHalfDown ->
                 IF twice > unit \/ (twice = unit /\ n < 0) THEN ceil ELSE floor
          [] mode = RoundHalfEven ->
                 IF twice > unit \/ (twice = unit /\ floor % 2 = 1)
                 THEN ceil ELSE floor
          [] mode = RoundCeiling -> ceil
          [] mode = RoundFloor -> floor

\* taxableAmount * TaxRate / 100 rounded to RoundingPrecision digits under
\* RoundingMode, from the exact product
ExactTax ==
    LET n == args.taxableAmount.coef * args.r.TaxRate.coef
        e == args.taxableAmount.exp + args.r.TaxRate.exp - 2
        p == args.r.RoundingPrecision
    IN  IF e >= -p
        THEN NewDecimal(n, e)
        ELSE NewDecimal(ExactRound(n, -p - e, args.r.RoundingMode), -p)

\* the smaller of two decimals
MinDecimal(x, y) == IF decimal_Cmp(x, y) <= 0 THEN x ELSE y

\* C26: for taxableAmount < MinTaxableAmount CalculateTax returns 0 and no
\* error; otherwise it returns the smaller of MaxTaxAmount and
\* taxableAmount * TaxRate / 100 rounded to RoundingPrecision under
\* RoundingMode.
C26_CalculateTax ==
    (/\ pc = "done" /\ op = "TaxRule.CalculateTax"
     /\ args.r.RoundingMode \in Modes) =>
        IF decimal_Cmp(args.taxableAmount, args.r.MinTaxableAmount) < 0
        THEN ret = Return(safedec_Zero, Nil)
        ELSE ret = Return(MinDecimal(ExactTax, args.r.MaxTaxAmount), Nil)

\* purchaseAmount * discountPercent / 100, exact
ExactDiscount ==
    NewDecimal(args.purchaseAmount.coef * args.discountPercent.coef,
               args.purchaseAmount.exp + args.discountPercent.exp - 2)

\* a decimal kept to DivisionPrecision digits after the point, halves away
\* from zero
ToDivisionPrecision(d) ==
    IF d.exp >= -DivisionPrecision THEN d
    ELSE LET unit == 10 ^ (-DivisionPrecision - d.exp)
             q == Abs(d.coef) \div unit
             up == 2 * (Abs(d.coef) % unit) >= unit
         IN  NewDecimal(Sign(d.coef) * (IF up THEN q + 1 ELSE q),
                        -DivisionPrecision)

\* C27 as stated: CalculateDiscount fails with ExceedsLimit when
\* purchaseAmount < MinPurchaseAmount or discountPercent >
\* MaxDiscountPercent, fails with NegativeValue when discountPercent < 0 and
\* the minimum is met, and otherwise succeeds with the smaller of
\* purchaseAmount * discountPercent / 100 and MaxDiscountAmount.
C27_CalculateDiscountAsStated ==
    (pc = "done" /\ op = "DiscountRule.CalculateDiscount") =>
        LET belowMin == decimal_Cmp(args.purchaseAmount,
                                    args.r.MinPurchaseAmount) < 0
            aboveMax == decimal_Cmp(args.discountPercent,
                                    args.r.MaxDiscountPercent) > 0
            negative == args.discountPercent.coef < 0
        IN  /\ (belowMin \/ aboveMax) => Is(ret.err, ErrExceedsLimit)
            /\ (negative /\ ~belowMin) => ret.err = ErrNegativeValue
            /\ ~(belowMin \/ aboveMax \/ negative) =>
                  /\ ret = Return(MinDecimal(ExactDiscount,
                                             args.r.MaxDiscountAmount), Nil)
                  /\ decimal_Cmp(ret.val, args.r.MaxDiscountAmount) <= 0

\* C27 amended: CalculateDiscount fails with ExceedsLimit when
\* purchaseAmount < MinPurchaseAmount, or when the minimum is met and
\* discountPercent is not negative and above MaxDiscountPercent; it fails
\* with NegativeValue when discountPercent < 0 and the minimum is met;
\* otherwise it succeeds with the smaller of MaxDiscountAmount and
\* purchaseAmount * discountPercent / 100 kept to 16 digits after the
\* point, halves away from zero; a successful result never exceeds
\* MaxDiscountAmount.
C27_CalculateDiscount ==
    (pc = "done" /\ op = "DiscountRule.CalculateDiscount") =>
        LET belowMin == decimal_Cmp(args.purchaseAmount,
                                    args.r.MinPurchaseAmount) < 0
            aboveMax == decimal_Cmp(args.discountPercent,
                                    args.r.MaxDiscountPercent) > 0
            negative == args.discountPercent.coef < 0
        IN  /\ (belowMin \/ (aboveMax /\ ~negative)) =>
                  Is(ret.err, ErrExceedsLimit)
            /\ (negative /\ ~belowMin) => ret.err = ErrNegativeValue
            /\ ~(belowMin \/ aboveMax \/ negative) =>
                  ret = Return(MinDecimal(ToDivisionPrecision(ExactDiscount),
                                          args.r.MaxDiscountAmount), Nil)
            /\ ret.err = Nil =>
                  decimal_Cmp(ret.val, args.r.MaxDiscountAmount) <= 0

\* C27 witness: a discount with more than 16 digits after the point has been
\* returned rounded.
C27_Witness ==
    /\ pc = "done" /\ op = "DiscountRule.CalculateDiscount"
    /\ args.purchaseAmount = NewDecimal(5, 1 - DivisionPrecision)
    /\ args.discountPercent = safedec_One
    /\ ret = Return(NewDecimal(1, -DivisionPrecision), Nil)

\* a call of RoundInt64 with a valid unit has returned and no intermediate of
\* any arm (value + unit - 1, value +/- unit/2, (quotient +/- 1) * unit)
\* leaves the int64 range
RoundedIntInRange(mode) ==
    RoundedInt(mode) /\ Abs(args.value) + args.unit <= MaxInt64

\* C28: for every value, every unit > 0 and each of the seven modes, without
\* intermediate overflow, the result of RoundInt64 is a multiple of unit,
\* less than unit away from value, and between the Floor result and the
\* Ceiling result.
C28_ResultBracketsValue ==
    \A mode \in Modes :
        RoundedIntInRange(mode) =>
            /\ ret.err = Nil
            /\ ret.val % args.unit = 0
            /\ Abs(ret.val - args.value) < args.unit
            /\ RoundInt64(args.value, args.unit, RoundFloor).val <= ret.val
            /\ ret.val <= RoundInt64(args.value, args.unit, RoundCeiling).val

\* C29: for every value v, unit > 0 and mode Down, Up, HalfUp, HalfDown or
\* HalfEven, RoundInt64(-v, unit, mode) = -RoundInt64(v, unit, mode), and
\* RoundInt64(-v, unit, Ceiling) = -RoundInt64(v, unit, Floor).
C29_SignSymmetry ==
    /\ \A mode \in {RoundDown, RoundUp, RoundHalfUp, RoundHalfDown,
                    RoundHalfEven} :
           RoundedIntInRange(mode) =>
               RoundInt64(-args.value, args.unit, mode) =
                   Return(-ret.val, ret.err)
    /\ RoundedIntInRange(RoundFloor) =>
           RoundInt64(-args.value, args.unit, RoundCeiling) =
               Return(-ret.val, ret.err)

\* C30: whenever Add(a, b) succeeds with result r, Sub(r, b) succeeds and
\* returns a, and whenever Sub(a, b) succeeds with result r, Add(r, b)
\* succeeds and returns a, for signed and for unsigned operands.
C30_AddSubRoundTrip ==
    (pc = "done" /\ ret.err = Nil) =>
        /\ op = "safeint.Add" =>
               safeint_Sub(ret.val, args.b) = Return(args.a, Nil)
        /\ op = "safeint.Sub" =>
               safeint_Add(ret.val, args.b) = Return(args.a, Nil)
        /\ op = "safeuint.Add" =>
               safeuint_Sub(ret.val, args.b) = Return(args.a, Nil)
        /\ op = "safeuint.Sub" =>
               safeuint_Add(ret.val, args.b) = Return(args.a, Nil)

\* C30 witness: an unsigned Add has reached MaxUint64 and subtracting the
\* second operand from the result gives the first operand back.
C30_Witness ==
    /\ pc = "done" /\ op = "safeuint.Add"
    /\ args.a = MaxUint64 - 1 /\ args.b = 1
    /\ ret = Return(MaxUint64, Nil)
    /\ safeuint_Sub(ret.val, args.b) = Return(MaxUint64 - 1, Nil)

(***************************************************************************)
(* Concurrent callers: the claim.                                          *)
(***************************************************************************)
\* the result of the call of frame f when it runs alone
ResultAlone(f) ==
    CASE f.op = "safeint.Add" -> safeint_Add(f.a, f.b)
      [] f.op = "safeint.MulWithLimit" -> safeint_MulWithLimit(f.a, f.b, f.bound)
      [] f.op = "safeuint.SubWithFloor" -> safeuint_SubWithFloor(f.a, f.b, f.bound)
      [] f.op = "RoundInt64" -> RoundInt64(f.value, f.unit, f.mode)

====
